---- MODULE Spec2Model ----
(***************************************************************************)
(* Model of the NSE scanner backend (backend/strategies/base.py,           *)
(* backend/data_provider.py, backend/token_manager.py, backend/app.py,     *)
(* backend/scan_store.py, backend/strategies/rsi_oversold.py,              *)
(* backend/strategies/everest.py).                                         *)
(*                                                                         *)
(* These specifications share the module:                                  *)
(*   SpecFetch  one call of fetch_ohlcv followed by the rest of            *)
(*              BaseStrategy._fetch_and_scan, over every provider answer   *)
(*              and every registered strategy;                             *)
(*   SpecPool   the submission loop of run_stream and the worker threads   *)
(*              of ThreadPoolExecutor(max_workers=MAX_WORKERS), tasks      *)
(*              counted, with the clock of the submitting thread;          *)
(*   Spec       one streaming scan: run_stream driven by                   *)
(*              scan_stream.event_stream, every future tracked by itself;  *)
(*   SpecStore  the job store of scan_store.py, its functions called in    *)
(*              any order, each call one step (SpecStoreFair: the same     *)
(*              with time that keeps passing);                             *)
(*   SpecLock   the same functions called by three threads, each call in   *)
(*              the steps that `with _lock:` gives it;                     *)
(*   SpecJob    one scan whose events a background task writes into the    *)
(*              job store;                                                 *)
(*   SpecRequest  one request to /api/scan/stream or /api/scan, from the   *)
(*              credential check to the last byte of the answer;           *)
(*   SpecSort   the sort of the blocking route on one list of entries;     *)
(*   SpecRsi    one call of RSIOversoldStrategy.scan;                      *)
(*   SpecEverest  one call of _supertrend or of EverestStrategy.scan on    *)
(*              one series of daily bars;                                  *)
(*   SpecMaster the first calls of _get_instrument_key, made by worker     *)
(*              threads that share the instrument cache and its lock.      *)
(***************************************************************************)
EXTENDS Integers, Sequences, FiniteSets, TLC

\* ------------------------------------------------------------------------
\* Program constants
\* ------------------------------------------------------------------------

\* base.py:25
MAX_WORKERS == 20

\* base.py:26
SUBMIT_STAGGER_MS == 45

\* base.py:41, the bar count below which _fetch_and_scan does not call scan
BaseMinBars == 30

\* strategies/__init__.py:11-22, the registry, by class name
Strategies ==
    {"RSIOversold", "MACDCrossover", "GoldenCross", "Breakout",
     "VolumeSurge", "EMAPullback", "Everest"}

\* The `if len(...) < k: return None` that opens every scan method
MinBars(s) ==
    CASE s = "RSIOversold"   -> 20
      [] s = "MACDCrossover" -> 40
      [] s = "GoldenCross"   -> 205
      [] s = "Breakout"      -> 50
      [] s = "VolumeSurge"   -> 25
      [] s = "EMAPullback"   -> 55
      [] s = "Everest"       -> 100

\* _period_days of every strategy class (base.py:32 unless overridden)
PeriodDays(s) ==
    CASE s = "GoldenCross" -> 365
      [] s = "Breakout"    -> 365
      [] s = "Everest"     -> 120
      [] OTHER             -> 180

\* data_provider.py:120-127: the request covers the dates from_date..to_date,
\* PeriodDays + 1 calendar dates; the provider has at most one daily candle
\* per weekday, so a window of d + 1 dates holds at most this many bars.
Min2(a, b) == IF a < b THEN a ELSE b

WindowCapacity(d) == 5 * ((d + 1) \div 7) + Min2((d + 1) % 7, 5)

\* ------------------------------------------------------------------------
\* Exceptions.  Python: EnvironmentError is an alias of OSError, and
\* requests.exceptions.RequestException derives from IOError, itself an
\* alias of OSError; so every transport error (ConnectionError, Timeout)
\* and the HTTPError of raise_for_status() is an instance of
\* EnvironmentError.
\* ------------------------------------------------------------------------
IsEnvironmentError(c) == c \in {"EnvironmentError", "RequestException"}

IsValueError(c) == c = "ValueError"

Raise(c, why) == [kind |-> "raise", exc |-> c, why |-> why, bars |-> 0]

Return(n) == [kind |-> "return", exc |-> "none", why |-> "none", bars |-> n]

\* ------------------------------------------------------------------------
\* What one call of fetch_ohlcv meets: the stored token, the instrument
\* master, and the provider's answer to the candle request.
\* ------------------------------------------------------------------------
KeyAnswers == {"found", "not_found", "master_unreachable"}

HttpAnswers == {"timeout", "s401", "s429", "s200"}

FailingWorlds ==
    {[token |-> FALSE, key |-> "found", http |-> "s200", bars |-> 0]}
    \cup {[token |-> TRUE, key |-> k, http |-> "s200", bars |-> 0] :
             k \in KeyAnswers \ {"found"}}
    \cup {[token |-> TRUE, key |-> "found", http |-> h, bars |-> 0] :
             h \in HttpAnswers \ {"s200"}}

DataWorlds(s) ==
    {[token |-> TRUE, key |-> "found", http |-> "s200", bars |-> n] :
        n \in 0 .. WindowCapacity(PeriodDays(s))}

Worlds(s) == FailingWorlds \cup DataWorlds(s)

\* token_manager.py:134-145
get_valid_token(w) ==
    IF w.token THEN Return(0) ELSE Raise("EnvironmentError", "no_token")

\* data_provider.py:77-108 with _load_instrument_master (45-74): the
\* download of the master raises the transport error, an unknown symbol
\* raises ValueError
get_instrument_key(w) ==
    CASE w.key = "found"              -> Return(0)
      [] w.key = "not_found"          -> Raise("ValueError", "unresolved")
      [] w.key = "master_unreachable" -> Raise("RequestException", "transport")

\* data_provider.py:129-161, the request and the reading of its answer
http_get(w) ==
    CASE w.http = "timeout" -> Raise("RequestException", "transport")
      [] w.http = "s401"    -> Raise("EnvironmentError", "http_401")
      [] w.http = "s429"    -> Raise("RequestException", "http_status")
      [] w.http = "s200"    -> Return(w.bars)

\* data_provider.py:116-161, the body of the try block
fetch_try(w) ==
    IF get_valid_token(w).kind = "raise" THEN get_valid_token(w)
    ELSE IF get_instrument_key(w).kind = "raise" THEN get_instrument_key(w)
    ELSE http_get(w)

\* data_provider.py:163-170, the except clauses in their order
fetch_except(r) ==
    IF r.kind = "return" THEN r
    ELSE IF IsEnvironmentError(r.exc) THEN r
    ELSE IF IsValueError(r.exc) THEN Return(0)
    ELSE Return(0)

\* data_provider.py:111-170
fetch_ohlcv(w) == fetch_except(fetch_try(w))

\* ------------------------------------------------------------------------
\* Evaluation.  EvalOutcomes is what the indicator computation of a scan
\* method does once it runs: a result dict, None, or an exception (for
\* instance _price_change dividing by a previous close of 0).
\* ------------------------------------------------------------------------
EvalOutcomes == {"match", "none", "raise"}

Scanned(res, computed, raised) ==
    [result |-> res, computed |-> computed, raised |-> raised]

\* The scan method of a strategy, e.g. everest.py:93-140
scan_without_guard(s, n, e) ==
    CASE e = "match" -> Scanned("match", TRUE, "none")
      [] e = "none"  -> Scanned("none", TRUE, "none")
      [] e = "raise" -> Scanned("none", TRUE, "ZeroDivisionError")

scan(s, n, e) ==
    IF n < MinBars(s) THEN Scanned("none", FALSE, "none")
    ELSE CASE e = "match" -> Scanned("match", TRUE, "none")
           [] e = "none"  -> Scanned("none", TRUE, "none")
           [] e = "raise" -> Scanned("none", TRUE, "ZeroDivisionError")

\* base.py:38-46 after fetch_ohlcv has returned or raised: df is its
\* outcome.  `except Exception` takes every exception of the try block,
\* the EnvironmentError of fetch_ohlcv included.  The value is what the
\* future holds: result is the second component of the returned tuple,
\* exc the exception left in the future, cause what happened on the way.
Task(res, exc, cause, computed) ==
    [result |-> res, exc |-> exc, cause |-> cause, computed |-> computed]

fetch_and_scan_rest(df, s, e) ==
    IF df.kind = "raise"
    THEN Task("none", "none",
              IF df.why \in {"no_token", "http_401"} THEN "credential"
              ELSE "error", FALSE)
    ELSE IF df.bars = 0 \/ df.bars < BaseMinBars
    THEN Task("none", "none", "short", FALSE)
    ELSE IF scan(s, df.bars, e).raised # "none"
    THEN Task("none", "none", "error", TRUE)
    ELSE Task(scan(s, df.bars, e).result, "none",
              IF scan(s, df.bars, e).computed THEN "evaluated" ELSE "short",
              scan(s, df.bars, e).computed)

\* base.py:38-46
fetch_and_scan(w, s, e) == fetch_and_scan_rest(fetch_ohlcv(w), s, e)

\* base.py:74-97, the type of the event run_stream yields for one completed
\* future: future.result() raising gives progress, a result dict gives
\* match, None gives progress
event_type_error_surfaces(t) ==
    IF t.cause = "error" THEN "error"
    ELSE IF t.result = "match" THEN "match" ELSE "progress"

event_type(t) ==
    IF t.exc # "none" THEN "progress"
    ELSE IF t.result = "match" THEN "match" ELSE "progress"

\* ------------------------------------------------------------------------
\* State
\* ------------------------------------------------------------------------
VARIABLES
    \* SpecFetch: one _fetch_and_scan call
    fpc,          \* "call", "fetched", "done"
    fStrategy,    \* the strategy whose scan is called
    fWorld,       \* what the call meets
    fEval,        \* what the indicator computation does if it runs
    fDf,          \* outcome of fetch_ohlcv
    fTask,        \* outcome of _fetch_and_scan
    \* SpecPool: the submission loop and the pool, tasks counted
    ppc,          \* "submit", "collect", "closed"
    pTotal,       \* len(symbols)
    pSubmitted,   \* futures submitted so far
    pQueued,      \* work items in executor._work_queue
    pRunning,     \* worker threads inside work_item.run()
    pFinished,    \* futures finished
    pThreads,     \* len(executor._threads)
    pIdleSem,     \* value of executor._idle_semaphore
    pSlept,       \* ms slept by the last time.sleep of the loop
    pLastGap,     \* ms between the last two executor.submit calls
    pBusyAtSubmit,\* every one of MAX_WORKERS workers was running at the last submit
    \* Spec: one streaming scan, futures tracked one by one
    pc,           \* "submit", "collect", "done"
    strategy,     \* the strategy of the request
    tickers,      \* the universe of the request
    fstate,       \* per future: "unsubmitted", "queued", "running", "finished"
    task,         \* per future: what _fetch_and_scan left in it
    queue,        \* executor._work_queue
    threads,      \* len(executor._threads)
    idleSem,      \* value of executor._idle_semaphore
    finishOrder,  \* futures in the order they finished
    waiterOn,     \* as_completed has installed its waiter
    waiterList,   \* waiter.finished_futures
    acFinished,   \* as_completed: futures found finished on entry, not yet yielded
    acPending,    \* as_completed: pending
    batch,        \* as_completed: the list being yielded from
    completed,    \* run_stream: completed
    matches,      \* event_stream: matches
    events,       \* what event_stream has sent to the client
    \* SpecStore, SpecLock: scan_store.py
    jobs,         \* _jobs: job id -> job dict; matches is a reference to a list
    heap,         \* the list objects: heap[r] is the content of list r
    now,          \* time.time(), in seconds
    calls,        \* store calls and clock advances made so far
    snap,         \* the dict the last get_job returned
    snapSeen,     \* what that dict showed when get_job returned
    lastOp,       \* the last call made on the store
    evicted,      \* ids removed by cleanup_old_jobs so far
    lpc,          \* SpecLock, per thread: "idle", "waiting", "in1", "in2", "out"
    lcall,        \* SpecLock, per thread: the call it is making
    lock,         \* SpecLock: the thread that holds _lock, or "free"
    torn,         \* SpecLock: a body ran while another thread was inside one
    \* SpecRequest: app.py, one request to /api/scan or /api/scan/stream
    req,          \* the request and what the process holds when it arrives
    rpc,          \* where the handler is
    looked,       \* the lookups the handler has made, in order
    resp,         \* the response of the handler
    \* SpecSort, SpecRsi, SpecEverest: one call of a function
    data,         \* what the function is given
    result,       \* <<>> before it returns, then <<what it returned>>
    \* SpecMaster: data_provider.py, the instrument master and its cache
    instrument_cache, \* _instrument_cache: the symbols it has a key for
    master_df,    \* _master_df: <<>> while None, then <<the table>>
    cache_lock,   \* _cache_lock: the worker that holds it, or 0
    mpc,          \* per worker: where it is in _get_instrument_key
    msymbol,      \* per worker: the symbol it asks for
    mdf,          \* per worker: the local df of _load_instrument_master
    downloads     \* downloads of the master completed so far

fetchVars == <<fpc, fStrategy, fWorld, fEval, fDf, fTask>>

poolVars ==
    <<ppc, pTotal, pSubmitted, pQueued, pRunning, pFinished, pThreads,
      pIdleSem, pSlept, pLastGap, pBusyAtSubmit>>

scanVars ==
    <<pc, strategy, tickers, fstate, task, queue, threads, idleSem,
      finishOrder, waiterOn, waiterList, acFinished, acPending, batch,
      completed, matches, events>>

storeVars ==
    <<jobs, heap, now, calls, snap, snapSeen, lastOp, evicted, lpc, lcall,
      lock, torn>>

reqVars == <<req, rpc, looked, resp>>

evalVars == <<data, result>>

masterVars ==
    <<instrument_cache, master_df, cache_lock, mpc, msymbol, mdf, downloads>>

vars ==
    <<fetchVars, poolVars, scanVars, storeVars, reqVars, evalVars,
      masterVars>>

NoTask == Task("none", "none", "none", FALSE)

\* The variables of a specification that is not running
FetchIdle ==
    /\ fpc = "idle"
    /\ fStrategy = "none"
    /\ fWorld = [token |-> TRUE, key |-> "found", http |-> "s200", bars |-> 0]
    /\ fEval = "none"
    /\ fDf = Return(0)
    /\ fTask = NoTask

PoolIdle ==
    /\ ppc = "idle"
    /\ pTotal = 0
    /\ pSubmitted = 0
    /\ pQueued = 0
    /\ pRunning = 0
    /\ pFinished = 0
    /\ pThreads = 0
    /\ pIdleSem = 0
    /\ pSlept = 0
    /\ pLastGap = 0
    /\ pBusyAtSubmit = FALSE

ScanIdle ==
    /\ pc = "idle"
    /\ strategy = "none"
    /\ tickers = <<>>
    /\ fstate = <<>>
    /\ task = <<>>
    /\ queue = <<>>
    /\ threads = 0
    /\ idleSem = 0
    /\ finishOrder = <<>>
    /\ waiterOn = FALSE
    /\ waiterList = <<>>
    /\ acFinished = {}
    /\ acPending = {}
    /\ batch = <<>>
    /\ completed = 0
    /\ matches = <<>>
    /\ events = <<>>

\* scan_store.py:41-43, dict(_jobs.get(job_id, {})) for an id that is not in
\* the store: the empty dict, written as a job record of status "{}"
EmptyDict ==
    [status |-> "{}", total |-> 0, completed |-> 0, matches |-> 0,
     error |-> "None", created_at |-> 0]

NoResponse == [status |-> 0, matches |-> 0, results |-> <<>>]

ReqIdle ==
    /\ req = "none"
    /\ rpc = "idle"
    /\ looked = <<>>
    /\ resp = NoResponse

EvalIdle ==
    /\ data = <<>>
    /\ result = <<>>

MasterIdle ==
    /\ instrument_cache = {}
    /\ master_df = <<>>
    /\ cache_lock = 0
    /\ mpc = <<>>
    /\ msymbol = <<>>
    /\ mdf = <<>>
    /\ downloads = 0

\* What a caller reads in EmptyDict
EmptySeen == [EmptyDict EXCEPT !.matches = <<>>]

NoOp == [op |-> "none", id |-> "none"]

LockIdle ==
    /\ lpc = <<>>
    /\ lcall = <<>>
    /\ lock = "free"
    /\ torn = FALSE

StoreIdle ==
    /\ jobs = <<>>
    /\ heap = <<>>
    /\ now = 0
    /\ calls = 0
    /\ snap = EmptyDict
    /\ snapSeen = EmptySeen
    /\ lastOp = NoOp
    /\ evicted = {}
    /\ LockIdle

\* ------------------------------------------------------------------------
\* SpecFetch: fetch_ohlcv, then the rest of _fetch_and_scan
\* ------------------------------------------------------------------------
InitFetch ==
    /\ fpc = "call"
    /\ fStrategy \in Strategies
    /\ fWorld \in Worlds(fStrategy)
    /\ fEval \in EvalOutcomes
    /\ fDf = Return(0)
    /\ fTask = NoTask
    /\ MasterIdle
    /\ PoolIdle
    /\ ScanIdle
    /\ StoreIdle
    /\ ReqIdle
    /\ EvalIdle

\* base.py:40, data_provider.py:111-170
FetchOhlcvCall ==
    /\ fpc = "call"
    /\ fDf' = fetch_ohlcv(fWorld)
    /\ fpc' = "fetched"
    /\ UNCHANGED <<fStrategy, fWorld, fEval, fTask, poolVars, scanVars,
                   storeVars,
                   reqVars, evalVars, masterVars>>

\* base.py:41-46
FetchAndScanReturn ==
    /\ fpc = "fetched"
    /\ fTask' = fetch_and_scan_rest(fDf, fStrategy, fEval)
    /\ fpc' = "done"
    /\ UNCHANGED <<fStrategy, fWorld, fEval, fDf, poolVars, scanVars,
                   storeVars,
                   reqVars, evalVars, masterVars>>

NextFetch == FetchOhlcvCall \/ FetchAndScanReturn

SpecFetch == InitFetch /\ [][NextFetch]_vars

\* ------------------------------------------------------------------------
\* SpecPool: base.py:65-69 and the threads of the executor
\* ------------------------------------------------------------------------

\* Most tasks of one scan in SpecPool
MaxPoolTasks == 22

\* time.sleep(d) returns after at least d; the most it oversleeps, in ms
MaxOversleep == 1

\* base.py:69, the duration of time.sleep(SUBMIT_STAGGER_MS / 1000), in ms
sleep_ms_no_stagger(over) == over

sleep_ms(over) == SUBMIT_STAGGER_MS + over

\* ThreadPoolExecutor._adjust_thread_count, called by submit: a new worker
\* thread is started when no idle worker is signalled and the pool has fewer
\* than max_workers threads (base.py:65 passes MAX_WORKERS)
spawns_thread_unbounded(idle, nthreads) == idle = 0

spawns_thread(idle, nthreads) == idle = 0 /\ nthreads < MAX_WORKERS

InitPool ==
    /\ ppc = "submit"
    /\ pTotal \in 1 .. MaxPoolTasks
    /\ pSubmitted = 0
    /\ pQueued = 0
    /\ pRunning = 0
    /\ pFinished = 0
    /\ pThreads = 0
    /\ pIdleSem = 0
    /\ pSlept = 0
    /\ pLastGap = 0
    /\ pBusyAtSubmit = FALSE
    /\ FetchIdle
    /\ MasterIdle
    /\ ScanIdle
    /\ StoreIdle
    /\ ReqIdle
    /\ EvalIdle

\* base.py:67-69, one turn of the submission loop: executor.submit puts the
\* work item on the queue whatever the workers are doing, then the thread
\* sleeps.  The time since the previous submit is the previous sleep.
PoolSubmit ==
    /\ ppc = "submit"
    /\ pSubmitted < pTotal
    /\ \E over \in 0 .. MaxOversleep :
          pSlept' = sleep_ms(over)
    /\ pLastGap' = pSlept
    /\ pBusyAtSubmit' = (pRunning >= MAX_WORKERS)
    /\ pSubmitted' = pSubmitted + 1
    /\ pQueued' = pQueued + 1
    /\ pIdleSem' = IF pIdleSem > 0 THEN pIdleSem - 1 ELSE pIdleSem
    /\ pThreads' =
          IF spawns_thread(pIdleSem, pThreads) THEN pThreads + 1 ELSE pThreads
    /\ UNCHANGED <<ppc, pTotal, pRunning, pFinished, fetchVars, scanVars,
                   storeVars,
                   reqVars, evalVars, masterVars>>

\* base.py:71, the loop is over and as_completed collects
PoolCollect ==
    /\ ppc = "submit"
    /\ pSubmitted = pTotal
    /\ ppc' = "collect"
    /\ UNCHANGED <<pTotal, pSubmitted, pQueued, pRunning, pFinished, pThreads,
                   pIdleSem, pSlept, pLastGap, pBusyAtSubmit, fetchVars,
                   scanVars,
                   storeVars,
                   reqVars, evalVars, masterVars>>

\* _worker: a thread that is not running an item takes the next one
PoolWorkerGet ==
    /\ ppc \in {"submit", "collect"}
    /\ pQueued > 0
    /\ pRunning < pThreads
    /\ pQueued' = pQueued - 1
    /\ pRunning' = pRunning + 1
    /\ UNCHANGED <<ppc, pTotal, pSubmitted, pFinished, pThreads, pIdleSem,
                   pSlept, pLastGap, pBusyAtSubmit, fetchVars, scanVars,
                   storeVars,
                   reqVars, evalVars, masterVars>>

\* _worker: work_item.run() returns, the thread signals that it is idle
PoolWorkerFinish ==
    /\ ppc \in {"submit", "collect"}
    /\ pRunning > 0
    /\ pRunning' = pRunning - 1
    /\ pFinished' = pFinished + 1
    /\ pIdleSem' = pIdleSem + 1
    /\ UNCHANGED <<ppc, pTotal, pSubmitted, pQueued, pThreads, pSlept,
                   pLastGap, pBusyAtSubmit, fetchVars, scanVars,
                   storeVars,
                   reqVars, evalVars, masterVars>>

\* base.py:65, leaving the with block: shutdown(wait=True)
PoolShutdown ==
    /\ ppc = "collect"
    /\ pFinished = pTotal
    /\ ppc' = "closed"
    /\ UNCHANGED <<pTotal, pSubmitted, pQueued, pRunning, pFinished, pThreads,
                   pIdleSem, pSlept, pLastGap, pBusyAtSubmit, fetchVars,
                   scanVars,
                   storeVars,
                   reqVars, evalVars, masterVars>>

NextPool ==
    \/ PoolSubmit
    \/ PoolCollect
    \/ PoolWorkerGet
    \/ PoolWorkerFinish
    \/ PoolShutdown

SpecPool == InitPool /\ [][NextPool]_vars

\* ------------------------------------------------------------------------
\* Spec: one streaming scan, app.py:154-169 driving base.py:51-97
\* ------------------------------------------------------------------------

\* Most tickers in the universe of one scan in Spec
MaxSymbols == 2

\* Tickers a universe is made of; a list may hold one twice
TickerNames == {"A.NS", "B"}

\* base.py:56, t.replace(".NS", "").replace(".BO", "")
clean(t) ==
    CASE t = "A.NS" -> "A"
      [] t = "B.BO" -> "B"
      [] OTHER      -> t

symbols == [i \in DOMAIN tickers |-> clean(tickers[i])]

\* base.py:57
total == Len(symbols)

Futures == 1 .. total

\* Every list of 1..n tickers
TickerLists(n) == UNION {[1 .. k -> TickerNames] : k \in 1 .. n}

\* What run_stream can tell of a finished future: its result, its exception,
\* and whether the call failed on the credential, on another error, or not
in_future(t) ==
    [result |-> t.result, exc |-> t.exc,
     cause |-> IF t.cause \in {"credential", "error"} THEN t.cause ELSE "none"]

\* What a future can hold once _fetch_and_scan has ended, over everything
\* the call can meet, for each strategy
TaskOutcomes ==
    [s \in Strategies |->
        {in_future(fetch_and_scan(w, s, e)) :
            w \in Worlds(s), e \in EvalOutcomes}]

\* base.py:73
next_completed_stuck(c) == c

next_completed(c) == c + 1

\* base.py:76-97: what run_stream yields for the future i it has just taken
\* from as_completed, c being the value of completed after the increment.
\* fut is not a field of the event: it records which future the event is for.
yield_for_matches_only(i, c) ==
    IF event_type(task[i]) = "match"
    THEN <<[type |-> "match", completed |-> c, total |-> total,
            symbol |-> symbols[i], fut |-> i]>>
    ELSE <<>>

yield_for(i, c) ==
    <<[type |-> event_type(task[i]), completed |-> c, total |-> total,
       symbol |-> symbols[i], fut |-> i]>>

\* app.py:165, the final summary event
done_event_counts_all(ms) ==
    [type |-> "done", total_scanned |-> Len(tickers), matches |-> completed]

done_event(ms) ==
    [type |-> "done", total_scanned |-> Len(tickers), matches |-> Len(ms)]

\* app.py:158-159
collect_matches(ms, evs) ==
    ms \o SelectSeq(evs, LAMBDA e : e.type = "match")

Init ==
    /\ pc = "submit"
    /\ strategy \in Strategies
    /\ tickers \in TickerLists(MaxSymbols)
    /\ fstate = [i \in DOMAIN tickers |-> "unsubmitted"]
    /\ task = [i \in DOMAIN tickers |-> in_future(NoTask)]
    /\ queue = <<>>
    /\ threads = 0
    /\ idleSem = 0
    /\ finishOrder = <<>>
    /\ waiterOn = FALSE
    /\ waiterList = <<>>
    /\ acFinished = {}
    /\ acPending = {}
    /\ batch = <<>>
    /\ completed = 0
    /\ matches = <<>>
    /\ events = <<>>
    /\ FetchIdle
    /\ MasterIdle
    /\ PoolIdle
    /\ StoreIdle
    /\ ReqIdle
    /\ EvalIdle

\* base.py:67-69, one turn of the submission loop for the next symbol
Submit ==
    /\ pc = "submit"
    /\ \E i \in Futures :
          /\ fstate[i] = "unsubmitted"
          /\ \A j \in 1 .. i - 1 : fstate[j] # "unsubmitted"
          /\ fstate' = [fstate EXCEPT ![i] = "queued"]
          /\ queue' = Append(queue, i)
    /\ idleSem' = IF idleSem > 0 THEN idleSem - 1 ELSE idleSem
    /\ threads' = IF spawns_thread(idleSem, threads) THEN threads + 1 ELSE threads
    /\ UNCHANGED <<pc, strategy, tickers, task, finishOrder, waiterOn,
                   waiterList, acFinished, acPending, batch, completed,
                   matches, events, fetchVars, poolVars,
                   storeVars,
                   reqVars, evalVars, masterVars>>

\* _worker: an idle thread takes the oldest work item and starts
\* _fetch_and_scan for it
WorkerGet ==
    /\ pc \in {"submit", "collect"}
    /\ queue # <<>>
    /\ Cardinality({i \in Futures : fstate[i] = "running"}) < threads
    /\ fstate' = [fstate EXCEPT ![Head(queue)] = "running"]
    /\ queue' = Tail(queue)
    /\ UNCHANGED <<pc, strategy, tickers, task, threads, idleSem, finishOrder,
                   waiterOn, waiterList, acFinished, acPending, batch,
                   completed, matches, events, fetchVars, poolVars,
                   storeVars,
                   reqVars, evalVars, masterVars>>

\* _worker: _fetch_and_scan(symbols[i]) ends, the future is set (and tells
\* the waiter of as_completed when one is installed), the thread signals idle
WorkerFinish(i) ==
    /\ pc \in {"submit", "collect"}
    /\ fstate[i] = "running"
    /\ \E t \in TaskOutcomes[strategy] : task' = [task EXCEPT ![i] = t]
    /\ fstate' = [fstate EXCEPT ![i] = "finished"]
    /\ finishOrder' = Append(finishOrder, i)
    /\ waiterList' = IF waiterOn THEN Append(waiterList, i) ELSE waiterList
    /\ idleSem' = idleSem + 1
    /\ UNCHANGED <<pc, strategy, tickers, queue, threads, waiterOn,
                   acFinished, acPending, batch, completed, matches, events,
                   fetchVars, poolVars,
                   storeVars,
                   reqVars, evalVars, masterVars>>

\* base.py:71, the first next() on as_completed(futures), reached once every
\* symbol has been submitted: the futures already finished are put in a set,
\* the rest is pending, the waiter is installed
as_completed_pending(fs, finished) == fs \ finished

AsCompletedEnter ==
    /\ pc = "submit"
    /\ \A i \in Futures : fstate[i] # "unsubmitted"
    /\ pc' = "collect"
    /\ acFinished' = {i \in Futures : fstate[i] = "finished"}
    /\ acPending' =
          as_completed_pending(Futures, {i \in Futures : fstate[i] = "finished"})
    /\ waiterOn' = TRUE
    /\ UNCHANGED <<strategy, tickers, fstate, task, queue, threads, idleSem,
                   finishOrder, waiterList, batch, completed, matches, events,
                   fetchVars, poolVars,
                   storeVars,
                   reqVars, evalVars, masterVars>>

\* base.py:72-97 and app.py:157-162 for the future i that as_completed hands
\* over: completed is incremented, the event is yielded and sent
Emit(i) ==
    /\ completed' = next_completed(completed)
    /\ events' = events \o yield_for(i, next_completed(completed))
    /\ matches' = collect_matches(matches, yield_for(i, next_completed(completed)))

\* as_completed yields the futures that were finished on entry first, in the
\* iteration order of a set of Future objects: any order
YieldFinished(i) ==
    /\ pc = "collect"
    /\ i \in acFinished
    /\ acFinished' = acFinished \ {i}
    /\ Emit(i)
    /\ UNCHANGED <<pc, strategy, tickers, fstate, task, queue, threads,
                   idleSem, finishOrder, waiterOn, waiterList, acPending,
                   batch, fetchVars, poolVars,
                   storeVars,
                   reqVars, evalVars, masterVars>>

\* as_completed, `while pending`: waiter.event is set, the futures that
\* finished since the last turn are taken in the order they finished
Wait ==
    /\ pc = "collect"
    /\ acFinished = {}
    /\ batch = <<>>
    /\ acPending # {}
    /\ waiterList # <<>>
    /\ batch' = waiterList
    /\ waiterList' = <<>>
    /\ UNCHANGED <<pc, strategy, tickers, fstate, task, queue, threads,
                   idleSem, finishOrder, waiterOn, acFinished, acPending,
                   completed, matches, events, fetchVars, poolVars,
                   storeVars,
                   reqVars, evalVars, masterVars>>

\* as_completed yields the next future of the list it took from the waiter
YieldPending ==
    /\ pc = "collect"
    /\ acFinished = {}
    /\ batch # <<>>
    /\ batch' = Tail(batch)
    /\ acPending' = acPending \ {Head(batch)}
    /\ Emit(Head(batch))
    /\ UNCHANGED <<pc, strategy, tickers, fstate, task, queue, threads,
                   idleSem, finishOrder, waiterOn, waiterList, acFinished,
                   fetchVars, poolVars,
                   storeVars,
                   reqVars, evalVars, masterVars>>

\* as_completed is exhausted, run_stream leaves the with block and ends;
\* app.py:165 sends the summary
StreamDone ==
    /\ pc = "collect"
    /\ acFinished = {}
    /\ batch = <<>>
    /\ acPending = {}
    /\ pc' = "done"
    /\ events' = Append(events, done_event(matches))
    /\ UNCHANGED <<strategy, tickers, fstate, task, queue, threads, idleSem,
                   finishOrder, waiterOn, waiterList, acFinished, acPending,
                   batch, completed, matches, fetchVars, poolVars,
                   storeVars,
                   reqVars, evalVars, masterVars>>

Next ==
    \/ Submit
    \/ WorkerGet
    \/ \E i \in Futures : WorkerFinish(i)
    \/ AsCompletedEnter
    \/ \E i \in Futures : YieldFinished(i)
    \/ Wait
    \/ YieldPending
    \/ StreamDone

Spec == Init /\ [][Next]_vars

\* ------------------------------------------------------------------------
\* SpecStore: the calls of scan_store.py, each one atomic (it runs under
\* _lock, see SpecLock), made in any order by any caller
\* ------------------------------------------------------------------------

\* scan_store.py:74
RETENTION == 600

\* Most create_job calls in one behaviour
MaxCreates == 2

\* Most results in the matches of one job
MaxMatches == 2

\* Largest completed or total a caller passes to update_progress
MaxCount == 1

\* Most calls and advances of the clock in one behaviour
MaxCalls == 5

\* scan_store.py:28, what str(uuid.uuid4())[:8] can be: eight hexadecimal
\* digits of a random UUID, nothing keeps two calls from giving the same
JobIds == {"a", "b"}

\* Results a caller passes to add_match, messages it passes to fail_job
Results == {"r1", "r2"}

Messages == {"e1", "e2"}

\* The clock advances by the retention time or by a second more
ClockSteps == {RETENTION, RETENTION + 1}

\* scan_store.py:30-37
new_job(r, t) ==
    [status |-> "running", total |-> 0, completed |-> 0, matches |-> r,
     error |-> "None", created_at |-> t]

\* scan_store.py:27-38: _jobs[job_id] = {...}, whatever _jobs held under
\* job_id; r is the new list given to matches, t the time
create_job(js, id, r, t) ==
    [j \in DOMAIN js \cup {id} |-> IF j = id THEN new_job(r, t) ELSE js[j]]

\* scan_store.py:41-43: a copy of the dict; its matches is the same list
get_job(js, id) == IF id \in DOMAIN js THEN js[id] ELSE EmptyDict

\* scan_store.py:46-50
update_progress_setdefault(js, id, c, t) ==
    [j \in DOMAIN js \cup {id} |->
        IF j = id
        THEN [IF id \in DOMAIN js THEN js[id] ELSE new_job(0, 0)
                 EXCEPT !.completed = c, !.total = t]
        ELSE js[j]]

update_progress_drops_total(js, id, c, t) ==
    IF id \in DOMAIN js THEN [js EXCEPT ![id].completed = c] ELSE js

update_progress(js, id, c, t) ==
    IF id \in DOMAIN js
    THEN [js EXCEPT ![id].completed = c, ![id].total = t]
    ELSE js

\* scan_store.py:53-56: the list of the job is appended to, in place
add_match_prepends(js, hp, id, res) ==
    IF id \in DOMAIN js
    THEN [hp EXCEPT ![js[id].matches] = <<res>> \o @]
    ELSE hp

add_match(js, hp, id, res) ==
    IF id \in DOMAIN js
    THEN [hp EXCEPT ![js[id].matches] = Append(@, res)]
    ELSE hp

\* scan_store.py:59-62
finish_job(js, id) ==
    IF id \in DOMAIN js THEN [js EXCEPT ![id].status = "done"] ELSE js

\* scan_store.py:65-69
fail_job(js, id, msg) ==
    IF id \in DOMAIN js
    THEN [js EXCEPT ![id].status = "error", ![id].error = msg]
    ELSE js

\* scan_store.py:74-76: j["created_at"] < cutoff, cutoff = time.time() - 600
is_old_at_cutoff(job, t) == job.created_at <= t - RETENTION

is_old(job, t) == job.created_at < t - RETENTION

\* scan_store.py:72-78
cleanup_old_jobs(js, t) ==
    [j \in {k \in DOMAIN js : ~is_old(js[k], t)} |-> js[j]]

\* What a caller reads in a dict that get_job returned: the fields, and
\* behind matches the list as it is now
Shown(d) ==
    IF d.status = "{}" THEN EmptySeen ELSE [d EXCEPT !.matches = heap[d.matches]]

Op(op, id) == [op |-> op, id |-> id]

InitStore ==
    /\ jobs = <<>>
    /\ heap = <<>>
    /\ now = 0
    /\ calls = 0
    /\ snap = EmptyDict
    /\ snapSeen = EmptySeen
    /\ lastOp = NoOp
    /\ evicted = {}
    /\ LockIdle
    /\ FetchIdle
    /\ MasterIdle
    /\ PoolIdle
    /\ ScanIdle
    /\ ReqIdle
    /\ EvalIdle

lockVars == <<lpc, lcall, lock, torn>>

\* One more call, of at most MaxCalls
Called ==
    /\ calls < MaxCalls
    /\ calls' = calls + 1

\* time passes
StoreTick ==
    /\ Called
    /\ \E d \in ClockSteps : now' = now + d
    /\ lastOp' = Op("tick", "none")
    /\ UNCHANGED <<jobs, heap, snap, snapSeen, evicted, lockVars, fetchVars,
                   poolVars, scanVars,
                   reqVars, evalVars, masterVars>>

\* create_job()
CreateJob ==
    /\ Called
    /\ Len(heap) < MaxCreates
    /\ \E id \in JobIds :
          /\ jobs' = create_job(jobs, id, Len(heap) + 1, now)
          /\ lastOp' = Op("create_job", id)
    /\ heap' = Append(heap, <<>>)
    /\ UNCHANGED <<now, snap, snapSeen, evicted, lockVars, fetchVars,
                   poolVars, scanVars,
                   reqVars, evalVars, masterVars>>

\* get_job(id)
GetJob(id) ==
    /\ Called
    /\ snap' = get_job(jobs, id)
    /\ snapSeen' = Shown(get_job(jobs, id))
    /\ lastOp' = Op("get_job", id)
    /\ UNCHANGED <<jobs, heap, now, evicted, lockVars, fetchVars,
                   poolVars, scanVars,
                   reqVars, evalVars, masterVars>>

\* update_progress(id, c, t)
UpdateProgress(id) ==
    /\ Called
    /\ \E c, t \in 0 .. MaxCount :
          /\ jobs' = update_progress(jobs, id, c, t)
          /\ lastOp' = Op("update_progress", id)
    /\ UNCHANGED <<heap, now, snap, snapSeen, evicted, lockVars,
                   fetchVars, poolVars, scanVars,
                   reqVars, evalVars, masterVars>>

\* add_match(id, res)
AddMatch(id) ==
    /\ Called
    /\ id \in DOMAIN jobs => Len(heap[jobs[id].matches]) < MaxMatches
    /\ \E res \in Results :
          /\ heap' = add_match(jobs, heap, id, res)
          /\ lastOp' = Op("add_match", id)
    /\ UNCHANGED <<jobs, now, snap, snapSeen, evicted, lockVars,
                   fetchVars, poolVars, scanVars,
                   reqVars, evalVars, masterVars>>

\* finish_job(id)
FinishJob(id) ==
    /\ Called
    /\ jobs' = finish_job(jobs, id)
    /\ lastOp' = Op("finish_job", id)
    /\ UNCHANGED <<heap, now, snap, snapSeen, evicted, lockVars,
                   fetchVars, poolVars, scanVars,
                   reqVars, evalVars, masterVars>>

\* fail_job(id, msg)
FailJob(id) ==
    /\ Called
    /\ \E msg \in Messages :
          /\ jobs' = fail_job(jobs, id, msg)
          /\ lastOp' = Op("fail_job", id)
    /\ UNCHANGED <<heap, now, snap, snapSeen, evicted, lockVars,
                   fetchVars, poolVars, scanVars,
                   reqVars, evalVars, masterVars>>

\* cleanup_old_jobs()
Cleanup ==
    /\ Called
    /\ jobs' = cleanup_old_jobs(jobs, now)
    /\ evicted' = evicted \cup (DOMAIN jobs \ DOMAIN cleanup_old_jobs(jobs, now))
    /\ lastOp' = Op("cleanup", "none")
    /\ UNCHANGED <<heap, now, snap, snapSeen, lockVars, fetchVars,
                   poolVars, scanVars,
                   reqVars, evalVars, masterVars>>

NextStore ==
    \/ StoreTick
    \/ CreateJob
    \/ \E id \in JobIds : GetJob(id)
    \/ \E id \in JobIds : UpdateProgress(id)
    \/ \E id \in JobIds : AddMatch(id)
    \/ \E id \in JobIds : FinishJob(id)
    \/ \E id \in JobIds : FailJob(id)
    \/ Cleanup

SpecStore == InitStore /\ [][NextStore]_vars

\* The store with time that does not stop while calls are still to come.
\* Nothing more is fair: the module starts no thread and no timer, and no
\* module of the application imports it (app.py:24-27), so every call,
\* cleanup_old_jobs included, is made only if a caller chooses to make it.
SpecStoreFair == InitStore /\ [][NextStore]_vars /\ WF_vars(StoreTick)

\* ------------------------------------------------------------------------
\* SpecLock: the same calls made by three threads, each call in the steps
\* `with _lock:` gives it: wait for the lock, take it, run the body (its
\* first statement, then the rest), release the lock and return
\* ------------------------------------------------------------------------

\* Most calls the threads start in one behaviour
MaxLockCalls == 3

\* The background scan that writes a job, a client that polls it, and
\* whoever runs the cleanup
Threads == {"writer", "reader", "cleaner"}

ThreadOps(t) ==
    IF t = "writer"
    THEN {"create_job", "update_progress", "add_match", "finish_job",
          "fail_job"}
    ELSE IF t = "reader" THEN {"get_job"} ELSE {"cleanup_old_jobs"}

\* A call: the function, the id it is given, the counters c and n or the
\* result or message arg it is given, the time at which it was made, and
\* the ids it has found to be old
Call(op, id, c, n, arg, at) ==
    [op |-> op, id |-> id, c |-> c, n |-> n, arg |-> arg, at |-> at,
     old |-> {}]

NoCall == Call("none", "none", 0, 0, "none", 0)

\* The calls thread t can start now. What create_job and cleanup_old_jobs
\* compute before `with _lock:` (the id, scan_store.py:28; the time,
\* scan_store.py:74) is part of the call
CallsOf(t) ==
    {Call("create_job", id, 0, 0, "none", 0) : id \in {i \in JobIds : Len(heap) < MaxCreates}}
    \cup {Call("update_progress", id, c, n, "none", 0) :
             id \in JobIds, c \in 0 .. MaxCount, n \in 0 .. MaxCount}
    \cup {Call("add_match", id, 0, 0, res, 0) :
             id \in {i \in JobIds :
                        i \in DOMAIN jobs
                           => Len(heap[jobs[i].matches]) < MaxMatches},
             res \in Results}
    \cup {Call("finish_job", id, 0, 0, "none", 0) : id \in JobIds}
    \cup {Call("fail_job", id, 0, 0, msg, 0) : id \in JobIds, msg \in Messages}
    \cup {Call("get_job", id, 0, 0, "none", 0) : id \in JobIds}
    \cup {Call("cleanup_old_jobs", "none", 0, 0, "none", now)}

\* threading.Lock.acquire: blocks until the lock is free
can_acquire_always(l) == TRUE

can_acquire(l) == l = "free"

Inside == {"in1", "in2", "out"}

\* Thread t runs a statement of a body while another thread is between the
\* first statement of its body and the rest
Tears(t) == \E u \in Threads \ {t} : lpc[u] = "in2"

InitLock ==
    /\ jobs = <<>>
    /\ heap = <<>>
    /\ now = 0
    /\ calls = 0
    /\ snap = EmptyDict
    /\ snapSeen = EmptySeen
    /\ lastOp = NoOp
    /\ evicted = {}
    /\ lpc = [t \in Threads |-> "idle"]
    /\ lcall = [t \in Threads |-> NoCall]
    /\ lock = "free"
    /\ torn = FALSE
    /\ FetchIdle
    /\ MasterIdle
    /\ PoolIdle
    /\ ScanIdle
    /\ ReqIdle
    /\ EvalIdle

\* time passes
LockTick ==
    /\ calls < MaxLockCalls
    /\ calls' = calls + 1
    /\ now' = now + RETENTION + 1
    /\ UNCHANGED <<jobs, heap, snap, snapSeen, lastOp, evicted, lockVars,
                   fetchVars, poolVars, scanVars,
                   reqVars, evalVars, masterVars>>

\* thread t calls a function of the store and reaches `with _lock:`
LockCall(t) ==
    /\ lpc[t] = "idle"
    /\ calls < MaxLockCalls
    /\ calls' = calls + 1
    /\ \E c \in {k \in CallsOf(t) : k.op \in ThreadOps(t)} :
          lcall' = [lcall EXCEPT ![t] = c]
    /\ lpc' = [lpc EXCEPT ![t] = "waiting"]
    /\ UNCHANGED <<jobs, heap, now, snap, snapSeen, lastOp, evicted, lock,
                   torn, fetchVars, poolVars, scanVars,
                   reqVars, evalVars, masterVars>>

\* _lock.__enter__
Acquire(t) ==
    /\ lpc[t] = "waiting"
    /\ can_acquire(lock)
    /\ lock' = t
    /\ lpc' = [lpc EXCEPT ![t] = "in1"]
    /\ UNCHANGED <<jobs, heap, now, calls, snap, snapSeen, lastOp, evicted,
                   lcall, torn, fetchVars, poolVars, scanVars,
                   reqVars, evalVars, masterVars>>

\* The first statement of the body of call c: the store after it
body1_jobs(c) ==
    IF c.op = "create_job" THEN create_job(jobs, c.id, Len(heap) + 1, now)
    ELSE IF c.op = "update_progress" /\ c.id \in DOMAIN jobs
         THEN [jobs EXCEPT ![c.id].completed = c.c]
    ELSE IF c.op = "finish_job" THEN finish_job(jobs, c.id)
    ELSE IF c.op = "fail_job" /\ c.id \in DOMAIN jobs
         THEN [jobs EXCEPT ![c.id].status = "error"]
    ELSE jobs

body1_heap(c) ==
    IF c.op = "create_job" THEN Append(heap, <<>>)
    ELSE IF c.op = "add_match" THEN add_match(jobs, heap, c.id, c.arg)
    ELSE heap

\* scan_store.py:76: the ids cleanup_old_jobs is going to delete
body1_call(c) ==
    IF c.op = "cleanup_old_jobs"
    THEN [c EXCEPT !.old = {k \in DOMAIN jobs : is_old(jobs[k], c.at)}]
    ELSE c

\* The rest of the body of call c: the store after it
body2_jobs(c) ==
    IF c.op = "update_progress" /\ c.id \in DOMAIN jobs
    THEN [jobs EXCEPT ![c.id].total = c.n]
    ELSE IF c.op = "fail_job" /\ c.id \in DOMAIN jobs
         THEN [jobs EXCEPT ![c.id].error = c.arg]
    ELSE IF c.op = "cleanup_old_jobs"
         THEN [j \in DOMAIN jobs \ c.old |-> jobs[j]]
    ELSE jobs

\* thread t, holding the lock, runs the first statement of the body
Body1(t) ==
    /\ lpc[t] = "in1"
    /\ jobs' = body1_jobs(lcall[t])
    /\ heap' = body1_heap(lcall[t])
    /\ lcall' = [lcall EXCEPT ![t] = body1_call(lcall[t])]
    /\ torn' = (torn \/ Tears(t))
    /\ lpc' = [lpc EXCEPT ![t] = "in2"]
    /\ UNCHANGED <<now, calls, snap, snapSeen, lastOp, evicted, lock,
                   fetchVars, poolVars, scanVars,
                   reqVars, evalVars, masterVars>>

\* thread t runs the rest of the body
Body2(t) ==
    /\ lpc[t] = "in2"
    /\ jobs' = body2_jobs(lcall[t])
    /\ IF lcall[t].op = "get_job"
       THEN /\ snap' = get_job(jobs, lcall[t].id)
            /\ snapSeen' = Shown(get_job(jobs, lcall[t].id))
       ELSE UNCHANGED <<snap, snapSeen>>
    /\ evicted' =
          IF lcall[t].op = "cleanup_old_jobs"
          THEN evicted \cup (lcall[t].old \cap DOMAIN jobs)
          ELSE evicted
    /\ torn' = (torn \/ Tears(t))
    /\ lpc' = [lpc EXCEPT ![t] = "out"]
    /\ UNCHANGED <<heap, now, calls, lastOp, lcall, lock, fetchVars,
                   poolVars, scanVars,
                   reqVars, evalVars, masterVars>>

\* _lock.__exit__, and the call returns
Release(t) ==
    /\ lpc[t] = "out"
    /\ lock' = "free"
    /\ lpc' = [lpc EXCEPT ![t] = "idle"]
    /\ lcall' = [lcall EXCEPT ![t] = NoCall]
    /\ UNCHANGED <<jobs, heap, now, calls, snap, snapSeen, lastOp, evicted,
                   torn, fetchVars, poolVars, scanVars,
                   reqVars, evalVars, masterVars>>

NextLock ==
    \/ LockTick
    \/ \E t \in Threads : LockCall(t)
    \/ \E t \in Threads : Acquire(t)
    \/ \E t \in Threads : Body1(t)
    \/ \E t \in Threads : Body2(t)
    \/ \E t \in Threads : Release(t)

\* A thread that is runnable gets to run, and a thread that waits for the
\* lock gets it if the lock is free again and again
LockFairness ==
    \A t \in Threads :
       /\ SF_vars(Acquire(t))
       /\ WF_vars(Body1(t) \/ Body2(t) \/ Release(t))

SpecLock == InitLock /\ [][NextLock]_vars /\ LockFairness

\* ------------------------------------------------------------------------
\* SpecJob: one scan driven into the job store. run_stream and the store
\* are the code's; what drives one into the other (the poll protocol: a job
\* is created, a background task turns every event of the scan into calls of
\* the store and finishes the job) is in no file of the backend and is taken
\* from its description
\* ------------------------------------------------------------------------

\* The strategy of the scan; the store is told nothing of it
JobStrategies == {"RSIOversold"}

InitJob ==
    /\ Init
    /\ strategy \in JobStrategies

\* The events of run_stream the background task has turned into calls
Driven == calls

\* start_scan: the job is created before the scan runs
JobCreate ==
    /\ jobs = <<>>
    /\ \E id \in JobIds :
          /\ jobs' = create_job(jobs, id, Len(heap) + 1, now)
          /\ lastOp' = Op("create_job", id)
    /\ heap' = Append(heap, <<>>)
    /\ UNCHANGED <<now, calls, snap, snapSeen, evicted, lockVars, fetchVars,
                   poolVars, scanVars,
                   reqVars, evalVars, masterVars>>

\* the scan runs for a job that exists, the task having dealt with every
\* event so far
JobScanStep ==
    /\ jobs # <<>>
    /\ Driven = Len(events)
    /\ Next

\* the background task takes the next event of run_stream: update_progress
\* with its counters, and add_match when it is a match
DriveEvent ==
    /\ Driven < Len(events)
    /\ events[Driven + 1].type \in {"match", "progress"}
    /\ calls' = calls + 1
    /\ \E id \in DOMAIN jobs :
          /\ jobs' = update_progress(jobs, id, events[Driven + 1].completed,
                                     events[Driven + 1].total)
          /\ heap' = IF events[Driven + 1].type = "match"
                     THEN add_match(jobs, heap, id, events[Driven + 1].symbol)
                     ELSE heap
          /\ lastOp' = Op("update_progress", id)
    /\ UNCHANGED <<now, snap, snapSeen, evicted, lockVars, fetchVars,
                   poolVars, scanVars,
                   reqVars, evalVars, masterVars>>

\* run_stream is exhausted: finish_job
DriveFinish ==
    /\ Driven < Len(events)
    /\ events[Driven + 1].type = "done"
    /\ calls' = calls + 1
    /\ \E id \in DOMAIN jobs :
          /\ jobs' = finish_job(jobs, id)
          /\ lastOp' = Op("finish_job", id)
    /\ UNCHANGED <<heap, now, snap, snapSeen, evicted, lockVars, fetchVars,
                   poolVars, scanVars,
                   reqVars, evalVars, masterVars>>

NextJob ==
    \/ JobCreate
    \/ JobScanStep
    \/ DriveEvent
    \/ DriveFinish

SpecJob == InitJob /\ [][NextJob]_vars

\* ------------------------------------------------------------------------
\* SpecSort: app.py:213-218, results.sort(key=...) on one list
\* ------------------------------------------------------------------------

\* Most entries of a list given to the sort in SpecSort
MaxEntries == 3

abs(n) == IF n < 0 THEN -n ELSE n

\* app.py:215, 0 if x.get("strength") == "Strong" else 1
strength_rank(x) ==
    IF "strength" \in DOMAIN x /\ x.strength = "Strong" THEN 0 ELSE 1

\* app.py:216, x.get("change_pct", 0)
change_pct_of(x) ==
    IF "change_pct" \in DOMAIN x THEN x.change_pct ELSE 0

\* app.py:214-217, the key of an entry, kept signed
sort_key_signed(x) == <<strength_rank(x), - change_pct_of(x)>>

sort_key(x) == <<strength_rank(x), - abs(change_pct_of(x))>>

\* the order of two keys, as Python orders tuples
key_less(a, b) == a[1] < b[1] \/ (a[1] = b[1] /\ a[2] < b[2])

\* list.sort is stable: x goes after every entry whose key is not greater
RECURSIVE insert_sorted(_, _)
insert_sorted(rs, x) ==
    IF rs = <<>> THEN <<x>>
    ELSE IF key_less(sort_key(x), sort_key(Head(rs)))
         THEN <<x>> \o rs
         ELSE <<Head(rs)>> \o insert_sorted(Tail(rs), x)

RECURSIVE sort_from(_, _)
sort_from(done, rest) ==
    IF rest = <<>> THEN done
    ELSE sort_from(insert_sorted(done, Head(rest)), Tail(rest))

\* app.py:213-218
sort_results(rs) == sort_from(<<>>, rs)

\* What a list given to the sort can hold: a match event of a strategy,
\* with the strength and change_pct of its result, and a progress event,
\* which has neither (base.py:76-97)
Entries ==
    [type : {"match"}, symbol : TickerNames,
     strength : {"Strong", "Moderate"}, change_pct : {-2, 1, 2}]
    \cup [type : {"progress"}, symbol : {"B"}]

InitSort ==
    /\ data \in UNION {[1 .. n -> Entries] : n \in 0 .. MaxEntries}
    /\ result = <<>>
    /\ FetchIdle
    /\ MasterIdle
    /\ PoolIdle
    /\ ScanIdle
    /\ StoreIdle
    /\ ReqIdle

\* app.py:213-218
SortResults ==
    /\ result = <<>>
    /\ result' = <<sort_results(data)>>
    /\ UNCHANGED <<data, fetchVars, poolVars, scanVars, storeVars, reqVars,
                masterVars>>

NextSort == SortResults

SpecSort == InitSort /\ [][NextSort]_vars

\* ------------------------------------------------------------------------
\* SpecRequest: app.py:121-232, one request to /api/scan/stream or /api/scan,
\* from its arrival to its last byte; the scan it starts is the scan of Spec
\* ------------------------------------------------------------------------

\* The two routes, by the name of their handler
Routes == {"scan_stream", "scan"}

\* Names a request can carry: none, one the registry holds, one it does not
StrategyNamesAsked == {"", "RSIOversold", "NoSuchStrategy"}

\* Names a request can carry: none, one of INDEX_MAP, one that is not
UniverseNamesAsked == {"", "Nifty 50", "NoSuchUniverse"}

\* universe/india_stocks.py:19-30
INDEX_MAP == {"Nifty 50"}

\* What _fetch_from_nse or the cache gives for a name of INDEX_MAP: the
\* constituents, or [] when NSE cannot be reached
NseAnswers == TickerLists(MaxSymbols) \cup {<<>>}

Requests ==
    [route : Routes, credential : BOOLEAN, strategy : StrategyNamesAsked,
     universe : UniverseNamesAsked, nse : NseAnswers]

\* app.py:114-118 over token_manager.py:66-100: the error of a request made
\* while no valid token is stored
check_auth_passes(r) == "none"

check_auth(r) == IF r.credential THEN "none" ELSE "Not authenticated"

\* strategies/__init__.py:25-26, STRATEGIES.get(name)
get_strategy(name) == IF name \in Strategies THEN name ELSE "none"

\* universe/india_stocks.py:106-130
get_universe(name, nse) == IF name \notin INDEX_MAP THEN <<>> ELSE nse

\* jsonify({"error": ...}), code
ErrorResponse(code) == [status |-> code, matches |-> 0, results |-> <<>>]

InitRequest ==
    /\ req \in Requests
    /\ rpc = "check_auth"
    /\ looked = <<>>
    /\ resp = NoResponse
    /\ FetchIdle
    /\ MasterIdle
    /\ PoolIdle
    /\ ScanIdle
    /\ StoreIdle
    /\ EvalIdle

\* app.py:129-131 and 186-188
CheckAuth ==
    /\ rpc = "check_auth"
    /\ IF check_auth(req) # "none"
       THEN rpc' = "responded" /\ resp' = ErrorResponse(401)
       ELSE rpc' = "check_names" /\ resp' = resp
    /\ UNCHANGED <<req, looked, fetchVars, poolVars, scanVars, storeVars,
                   evalVars, masterVars>>

\* app.py:133-139 and 190-197
CheckNames ==
    /\ rpc = "check_names"
    /\ IF req.strategy = "" \/ req.universe = ""
       THEN rpc' = "responded" /\ resp' = ErrorResponse(400)
       ELSE rpc' = "get_strategy" /\ resp' = resp
    /\ UNCHANGED <<req, looked, fetchVars, poolVars, scanVars, storeVars,
                   evalVars, masterVars>>

\* app.py:141-143 and 199-201
GetStrategy ==
    /\ rpc = "get_strategy"
    /\ looked' = Append(looked, "get_strategy")
    /\ IF get_strategy(req.strategy) = "none"
       THEN rpc' = "responded" /\ resp' = ErrorResponse(404)
       ELSE rpc' = "get_universe" /\ resp' = resp
    /\ UNCHANGED <<req, fetchVars, poolVars, scanVars, storeVars, evalVars,
                masterVars>>

\* app.py:145-147 and 203-205, then the call of run_stream (app.py:157) or of
\* run (app.py:212), which enters run_stream (base.py:51-66); the streaming
\* route has answered 200 by then (app.py:171-178)
GetUniverse ==
    /\ rpc = "get_universe"
    /\ looked' = Append(looked, "get_universe")
    /\ LET found == get_universe(req.universe, req.nse) IN
       IF found = <<>>
       THEN /\ rpc' = "responded"
            /\ resp' = ErrorResponse(404)
            /\ UNCHANGED scanVars
       ELSE /\ rpc' = "run"
            /\ resp' = IF req.route = "scan_stream"
                       THEN [NoResponse EXCEPT !.status = 200]
                       ELSE resp
            /\ pc' = "submit"
            /\ strategy' = get_strategy(req.strategy)
            /\ tickers' = found
            /\ fstate' = [i \in DOMAIN found |-> "unsubmitted"]
            /\ task' = [i \in DOMAIN found |-> in_future(NoTask)]
            /\ UNCHANGED <<queue, threads, idleSem, finishOrder, waiterOn,
                           waiterList, acFinished, acPending, batch,
                           completed, matches, events>>
    /\ UNCHANGED <<req, fetchVars, poolVars, storeVars, evalVars, masterVars>>

\* base.py:67-97, a step of run_stream and of its pool
RunStep ==
    /\ rpc = "run"
    /\ \/ Submit
       \/ WorkerGet
       \/ \E i \in Futures : WorkerFinish(i)
       \/ AsCompletedEnter
       \/ \E i \in Futures : YieldFinished(i)
       \/ Wait
       \/ YieldPending

\* app.py:165, the end of the streaming route
StreamEnd ==
    /\ rpc = "run"
    /\ req.route = "scan_stream"
    /\ StreamDone

\* base.py:48-49, list(self.run_stream(tickers))
run(evs) == evs

\* app.py:212-227, the end of the blocking route
ScanReturn ==
    /\ rpc = "run"
    /\ req.route = "scan"
    /\ pc = "collect"
    /\ acFinished = {}
    /\ batch = <<>>
    /\ acPending = {}
    /\ pc' = "done"
    /\ rpc' = "responded"
    /\ LET results == sort_results(run(events)) IN
       resp' = [status |-> 200, matches |-> Len(results), results |-> results]
    /\ UNCHANGED <<req, looked, strategy, tickers, fstate, task, queue,
                   threads, idleSem, finishOrder, waiterOn, waiterList,
                   acFinished, acPending, batch, completed, matches, events,
                   fetchVars, poolVars, storeVars, evalVars, masterVars>>

NextRequest ==
    \/ CheckAuth
    \/ CheckNames
    \/ GetStrategy
    \/ GetUniverse
    \/ RunStep
    \/ StreamEnd
    \/ ScanReturn

SpecRequest == InitRequest /\ [][NextRequest]_vars

\* ------------------------------------------------------------------------
\* Numbers of the strategies: a float is NaN or a number, kept as an integer
\* count of a unit the operator that uses it names (hundredths, tenths, ...)
\* ------------------------------------------------------------------------

NaN == [nan |-> TRUE, v |-> 0]

Num(n) == [nan |-> FALSE, v |-> n]

\* a < b and a > b on floats: False when either side is NaN
lt(a, b) == ~ a.nan /\ ~ b.nan /\ a.v < b.v

gt(a, b) == lt(b, a)

\* round(n / d, ·) for n >= 0, d > 0: the nearest whole count of the smaller
\* unit, a tie going to the even one
round_half_even(n, d) ==
    LET q == n \div d
        r == n % d
    IN  IF 2 * r < d THEN q
        ELSE IF 2 * r > d THEN q + 1
        ELSE IF q % 2 = 0 THEN q ELSE q + 1

\* ------------------------------------------------------------------------
\* SpecRsi: strategies/rsi_oversold.py:22-39, one call of scan
\* ------------------------------------------------------------------------

\* Longest series given to RSI Oversold in SpecRsi, in bars
MaxRsiBars == 20

\* rsi_oversold.py:24
RsiMinBars == 20

\* rsi_oversold.py:19, in hundredths
threshold == 3500

\* rsi_oversold.py:35, in hundredths
StrongBelow == 2500

\* A count of hundredths a float can hold where rounding to tenths needs no
\* digit beyond it: x.x5 is a float only as x.25 and x.75, every other x.x5
\* stands for a float a little above or below it
IsFloatHundredths(n) == n % 10 # 5 \/ n % 50 = 25

\* What _rsi(close).iloc[-1] can be (rsi_oversold.py:7-12), in hundredths:
\* 100 - 100 / (1 + gain / loss) is a number from 0 to 100, or NaN when the
\* series never moved
RsiValues ==
    {Num(n) : n \in {m \in 0 .. 10000 : IsFloatHundredths(m)}} \cup {NaN}

\* rsi_oversold.py:33, round(rsi_val, 1), in tenths
reported_rsi(v) == round_half_even(v.v, 10)

\* rsi_oversold.py:22-39: <<>> is None, <<d>> the dict d
rsi_scan(d) ==
    IF d.bars < RsiMinBars THEN <<>>
    ELSE IF lt(d.rsi, Num(threshold))
         THEN <<[rsi |-> reported_rsi(d.rsi),
                 strength |-> IF lt(d.rsi, Num(StrongBelow))
                              THEN "Strong" ELSE "Moderate"]>>
         ELSE <<>>

InitRsi ==
    /\ data \in [bars : MaxRsiBars - 1 .. MaxRsiBars, rsi : RsiValues]
    /\ result = <<>>
    /\ FetchIdle
    /\ MasterIdle
    /\ PoolIdle
    /\ ScanIdle
    /\ StoreIdle
    /\ ReqIdle

RsiScan ==
    /\ result = <<>>
    /\ result' = <<rsi_scan(data)>>
    /\ UNCHANGED <<data, fetchVars, poolVars, scanVars, storeVars, reqVars,
                masterVars>>

NextRsi == RsiScan

SpecRsi == InitRsi /\ [][NextRsi]_vars

\* ------------------------------------------------------------------------
\* SpecEverest: strategies/everest.py, one call of _supertrend or of
\* EverestStrategy.scan on one series of daily bars
\* ------------------------------------------------------------------------

\* Most bars that follow the steady run a series of SpecEverest starts with
MaxTail == 3

\* everest.py:112, _supertrend(data, period=7, multiplier=3.0)
period == 7

multiplier == 3

\* everest.py:94
EverestMinBars == 100

\* everest.py:103
lookback == 65

\* Prices are whole paise. A band or an ATR is a count of 1/Scale paise: the
\* ATR of the k-th bar after the steady run is a multiple of 1/7^k, hl2 of 1/2
Scale == 2 * (period ^ MaxTail)

Max2(a, b) == IF a >= b THEN a ELSE b

\* everest.py:31-38, the true range of bar i, in paise; close.shift(1) is NaN
\* at the first bar and max(axis=1) skips it
tr(df, i) ==
    IF i = 1 THEN df[1].high - df[1].low
    ELSE Max2(df[i].high - df[i].low,
              Max2(abs(df[i].high - df[i - 1].close),
                   abs(df[i].low - df[i - 1].close)))

\* everest.py:39, ewm(alpha=1/period, adjust=False).mean() before min_periods
\* hides anything: y[0] = tr[0], y[i] = (1 - 1/period) y[i-1] + tr[i] / period;
\* acc holds y of the bars before i
ewm_step(df, acc, i) ==
    IF i = 1 THEN tr(df, 1) * Scale
    ELSE ((period - 1) * acc[i - 1] + tr(df, i) * Scale) \div period

\* the bars lo .. hi in order, as the bars of the first half then those of
\* the second; acc always holds the bars before lo
RECURSIVE ewm_range(_, _, _, _)
ewm_range(df, lo, hi, acc) ==
    IF Len(acc) # lo - 1 THEN acc
    ELSE IF lo = hi THEN Append(acc, ewm_step(df, acc, lo))
    ELSE LET mid == (lo + hi) \div 2 IN
         ewm_range(df, mid + 1, hi, ewm_range(df, lo, mid, acc))

ewm_mean(df) == ewm_range(df, 1, Len(df), <<>>)

\* everest.py:39, min_periods=period: NaN at the first period - 1 bars
atr(df) ==
    LET y == ewm_mean(df) IN
    [i \in DOMAIN df |-> IF i < period THEN NaN ELSE Num(y[i])]

\* everest.py:41
hl2(df, i) == (df[i].high + df[i].low) * (Scale \div 2)

\* everest.py:42
upper_basic(df, a, i) ==
    IF a[i].nan THEN NaN ELSE Num(hl2(df, i) + multiplier * a[i].v)

\* everest.py:43
lower_basic(df, a, i) ==
    IF a[i].nan THEN NaN ELSE Num(hl2(df, i) - multiplier * a[i].v)

\* close.iloc[i] in the unit of the bands
close_at(df, i) == Num(df[i].close * Scale)

\* everest.py:50-61, the final bands of bar i, acc holding those of the bars
\* before: the basic bands up to bar first, carried forward after it
band_step(df, a, first, acc, i) ==
    LET ub == upper_basic(df, a, i)
        lb == lower_basic(df, a, i)
    IN  IF i <= first THEN [upper |-> ub, lower |-> lb]
        ELSE [upper |-> IF \/ lt(ub, acc[i - 1].upper)
                           \/ gt(close_at(df, i - 1), acc[i - 1].upper)
                        THEN ub ELSE acc[i - 1].upper,
              lower |-> IF \/ gt(lb, acc[i - 1].lower)
                           \/ lt(close_at(df, i - 1), acc[i - 1].lower)
                        THEN lb ELSE acc[i - 1].lower]

\* everest.py:49, the loop over the bars lo .. hi
RECURSIVE band_range(_, _, _, _, _, _)
band_range(df, a, first, lo, hi, acc) ==
    IF Len(acc) # lo - 1 THEN acc
    ELSE IF lo = hi THEN Append(acc, band_step(df, a, first, acc, lo))
    ELSE LET mid == (lo + hi) \div 2 IN
         band_range(df, a, first, mid + 1, hi,
                    band_range(df, a, first, lo, mid, acc))

carry_forward(df, a, first) == band_range(df, a, first, 1, Len(df), <<>>)

\* everest.py:46-49, upper_basic.copy(), lower_basic.copy() and
\* range(1, len(df)): the carry-forward starts at the second bar
final_bands(df, a) == carry_forward(df, a, 1)

\* everest.py:65, the seed
seed_bearish == Num(-1)

seed == Num(1)

\* everest.py:64-75, the direction of bar i, acc holding that of the bars
\* before: NaN before the seed, which is at index period, the bar period + 1
direction_step(df, bands, acc, i) ==
    IF i <= period THEN NaN
    ELSE IF i = period + 1 THEN seed
    ELSE LET prev == acc[i - 1]
             c == close_at(df, i)
         IN  IF prev = Num(-1) /\ gt(c, bands[i].upper) THEN Num(1)
             ELSE IF prev = Num(1) /\ lt(c, bands[i].lower) THEN Num(-1)
             ELSE prev

\* everest.py:67, the loop over the bars lo .. hi
RECURSIVE direction_range(_, _, _, _, _)
direction_range(df, bands, lo, hi, acc) ==
    IF Len(acc) # lo - 1 THEN acc
    ELSE IF lo = hi THEN Append(acc, direction_step(df, bands, acc, lo))
    ELSE LET mid == (lo + hi) \div 2 IN
         direction_range(df, bands, mid + 1, hi,
                         direction_range(df, bands, lo, mid, acc))

direction_from(df, bands) == direction_range(df, bands, 1, Len(df), <<>>)

\* everest.py:19-82 for a series of more than period bars: the bands, the
\* direction, is_green (direction == 1) and the line shown
supertrend(df) ==
    LET bands == final_bands(df, atr(df))
        direction == direction_from(df, bands)
    IN  [upper |-> [i \in DOMAIN df |-> bands[i].upper],
         lower |-> [i \in DOMAIN df |-> bands[i].lower],
         direction |-> direction,
         is_green |-> [i \in DOMAIN df |-> direction[i] = Num(1)],
         st_line |-> [i \in DOMAIN df |->
                        IF direction[i] = Num(1)
                        THEN bands[i].lower ELSE bands[i].upper]]

\* everest.py:104, high.iloc[-(lookback + 1):-1].max()
prior_high(df) ==
    LET n == Len(df)
        hs == {df[i].high : i \in n - lookback .. n - 1}
    IN  CHOOSE h \in hs : \A g \in hs : g <= h

\* everest.py:120-122, in hundredths of a percent
pct_breakout(c, ph) == round_half_even(10000 * (c - ph), ph)

\* everest.py:126
strength_of(flipped_today, c, ph) ==
    IF flipped_today \/ pct_breakout(c, ph) > 100 THEN "Strong" ELSE "Moderate"

\* everest.py:118, round(float(st_line.iloc[-1]), 2), in paise
st_val(st, n) ==
    IF st.st_line[n].nan THEN NaN
    ELSE Num(round_half_even(st.st_line[n].v, Scale))

\* everest.py:93-140: <<>> is None, <<d>> the dict d
everest_scan(df) ==
    IF Len(df) < EverestMinBars THEN <<>>
    ELSE LET n == Len(df)
             today_close == df[n].close
             broke_out == today_close > prior_high(df)
         IN  IF ~ broke_out THEN <<>>
             ELSE LET st == supertrend(df) IN
                  IF ~ st.is_green[n] THEN <<>>
                  ELSE LET flipped_today ==
                               st.is_green[n] /\ ~ st.is_green[n - 1]
                       IN  <<[price |-> today_close,
                              strength |-> strength_of(flipped_today,
                                              today_close, prior_high(df)),
                              week13_high |-> prior_high(df),
                              supertrend |-> st_val(st, n),
                              st_flipped |-> flipped_today,
                              pct_breakout |->
                                 pct_breakout(today_close, prior_high(df))]>>

\* The series of SpecEverest: a steady run of equal moves, which keeps the
\* true range the same from the first bar on, then at most MaxTail moves.
\* A move gives the high, the low and the close of a bar as distances from
\* the close before it, in paise.
Flat == [dh |-> 100, dl |-> -100, dc |-> 0]

Rise == [dh |-> 100, dl |-> 0, dc |-> 100]

\* a close 1.001 % above the high of a flat run
Up1102 == [dh |-> 1102, dl |-> 0, dc |-> 1102]

Up3000 == [dh |-> 3000, dl |-> 0, dc |-> 3000]

\* a close below the lower band of a flat run
Down1000 == [dh |-> 0, dl |-> -1000, dc |-> -1000]

\* a close below the lower basic band of its own bar
Down8000 == [dh |-> 0, dl |-> -8000, dc |-> -8000]

Moves == {Flat, Rise, Up1102, Up3000, Down1000, Down8000}

RunMoves == {Flat, Rise}

\* Lengths of the steady run: just past the seed of the direction, and
\* around EverestMinBars
RunLengths == {period + 1, EverestMinBars - 2}

\* The close before the first bar, 1000.00
BaseClose == 1000 * 100

bar_after(c, mv) ==
    [high |-> c + mv.dh, low |-> c + mv.dl, close |-> c + mv.dc]

\* the bars of a steady run of n moves mv after the close c
steady(c, mv, n) == [i \in 1 .. n |-> bar_after(c + (i - 1) * mv.dc, mv)]

RECURSIVE extend(_, _, _)
extend(df, c, mvs) ==
    IF mvs = <<>> THEN df
    ELSE LET b == bar_after(c, Head(mvs)) IN
         extend(Append(df, b), b.close, Tail(mvs))

Series(mv, n, tail) ==
    extend(steady(BaseClose, mv, n), BaseClose + n * mv.dc, tail)

Tails == UNION {[1 .. k -> Moves] : k \in 0 .. MaxTail}

InitEverest ==
    /\ data \in {Series(mv, n, t) : mv \in RunMoves, n \in RunLengths,
                                    t \in Tails}
    /\ result = <<>>
    /\ FetchIdle
    /\ MasterIdle
    /\ PoolIdle
    /\ ScanIdle
    /\ StoreIdle
    /\ ReqIdle

\* everest.py:19-82, a call of _supertrend; Len(data) > period, or line 65
\* raises IndexError
SupertrendCall ==
    /\ result = <<>>
    /\ Len(data) > period
    /\ result' = <<[call |-> "_supertrend", out |-> supertrend(data)]>>
    /\ UNCHANGED <<data, fetchVars, poolVars, scanVars, storeVars, reqVars,
                masterVars>>

\* everest.py:93-140, a call of EverestStrategy.scan
EverestScan ==
    /\ result = <<>>
    /\ result' = <<[call |-> "scan", out |-> everest_scan(data)]>>
    /\ UNCHANGED <<data, fetchVars, poolVars, scanVars, storeVars, reqVars,
                masterVars>>

NextEverest == SupertrendCall \/ EverestScan

SpecEverest == InitEverest /\ [][NextEverest]_vars

\* ------------------------------------------------------------------------
\* SpecMaster: data_provider.py, the first calls of _get_instrument_key,
\* one per worker thread, each statement that reads or writes a global
\* a step of its own
\* ------------------------------------------------------------------------
MaxMasterWorkers == 2

MasterWorkers == 1 .. MaxMasterWorkers

\* What data_provider.py:61-70 can give: a master with an EQUITY row, a
\* master without one, or an exception (the request fails, or read_csv
\* cannot read the body)
MasterAnswers == {"rows", "empty", "error"}

\* data_provider.py:73, the keys of dict(zip(df["tradingsymbol"], ...))
tradingsymbols(df) == IF df = "rows" THEN {"SBIN"} ELSE {}

\* The symbols the workers ask for: exact, other case, prefix, unknown
SymbolsAsked == {"SBIN", "sbin", "SB", "NOPE"}

\* str.upper, data_provider.py:86 and :94
upper(symbol) == IF symbol = "sbin" THEN "SBIN" ELSE symbol

\* data_provider.py:86-87 and :95-100, a row whose upper-cased symbol is
\* the symbol asked for, or starts with it
row_found(symbol, df) ==
    \/ upper(symbol) \in tradingsymbols(df)
    \/ upper(symbol) = "SB" /\ "SBIN" \in tradingsymbols(df)

\* data_provider.py:52 and :56, the truth value of the dict
cache_populated(cache) == cache # {}

InitMaster ==
    /\ instrument_cache = {}
    /\ master_df = <<>>
    /\ cache_lock = 0
    /\ mpc = [w \in MasterWorkers |-> "fast"]
    /\ msymbol \in [MasterWorkers -> SymbolsAsked]
    /\ mdf = [w \in MasterWorkers |-> <<>>]
    /\ downloads = 0
    /\ FetchIdle
    /\ PoolIdle
    /\ ScanIdle
    /\ StoreIdle
    /\ ReqIdle
    /\ EvalIdle

\* data_provider.py:52-53, the check made without the lock
FastPath(w) ==
    /\ mpc[w] = "fast"
    /\ mpc' = [mpc EXCEPT ![w] = IF cache_populated(instrument_cache)
                                    THEN "lookup" ELSE "acquire"]
    /\ UNCHANGED <<instrument_cache, master_df, cache_lock, msymbol, mdf,
                   downloads, fetchVars, poolVars, scanVars, storeVars,
                   reqVars, evalVars>>

\* data_provider.py:55, with _cache_lock
AcquireCacheLock(w) ==
    /\ mpc[w] = "acquire"
    /\ cache_lock = 0
    /\ cache_lock' = w
    /\ mpc' = [mpc EXCEPT ![w] = "recheck"]
    /\ UNCHANGED <<instrument_cache, master_df, msymbol, mdf, downloads,
                   fetchVars, poolVars, scanVars, storeVars, reqVars,
                   evalVars>>

\* data_provider.py:56-57, the check made again under the lock
Recheck(w) ==
    /\ mpc[w] = "recheck"
    /\ IF cache_populated(instrument_cache)
          THEN /\ cache_lock' = 0
               /\ mpc' = [mpc EXCEPT ![w] = "lookup"]
          ELSE /\ cache_lock' = cache_lock
               /\ mpc' = [mpc EXCEPT ![w] = "get"]
    /\ UNCHANGED <<instrument_cache, master_df, msymbol, mdf, downloads,
                   fetchVars, poolVars, scanVars, storeVars, reqVars,
                   evalVars>>

\* data_provider.py:61-70, the download, read and filtered to EQUITY rows;
\* an exception leaves the with block and the download is not counted
HttpGet(w) ==
    /\ mpc[w] = "get"
    /\ \E a \in MasterAnswers :
          IF a = "error"
             THEN /\ cache_lock' = 0
                  /\ mpc' = [mpc EXCEPT ![w] = "raised"]
                  /\ UNCHANGED <<mdf, downloads>>
             ELSE /\ mdf' = [mdf EXCEPT ![w] = <<a>>]
                  /\ downloads' = downloads + 1
                  /\ mpc' = [mpc EXCEPT ![w] = "set_master"]
                  /\ cache_lock' = cache_lock
    /\ UNCHANGED <<instrument_cache, master_df, msymbol, fetchVars,
                   poolVars, scanVars, storeVars, reqVars, evalVars>>

\* data_provider.py:72, _master_df = df
SetMaster(w) ==
    /\ mpc[w] = "set_master"
    /\ master_df' = mdf[w]
    /\ mpc' = [mpc EXCEPT ![w] = "set_cache"]
    /\ UNCHANGED <<instrument_cache, cache_lock, msymbol, mdf, downloads,
                   fetchVars, poolVars, scanVars, storeVars, reqVars,
                   evalVars>>

\* data_provider.py:73-74, _instrument_cache = dict(...), end of the with
SetCache(w) ==
    /\ mpc[w] = "set_cache"
    /\ instrument_cache' = tradingsymbols(mdf[w][1])
    /\ cache_lock' = 0
    /\ mpc' = [mpc EXCEPT ![w] = "lookup"]
    /\ UNCHANGED <<master_df, msymbol, mdf, downloads, fetchVars, poolVars,
                   scanVars, storeVars, reqVars, evalVars>>

\* data_provider.py:82-108, the lookup after _load_instrument_master
\* returned; indexing _master_df while it is None raises TypeError
Lookup(w) ==
    /\ mpc[w] = "lookup"
    /\ mpc' = [mpc EXCEPT ![w] =
                  IF msymbol[w] \in instrument_cache THEN "returned"
                  ELSE IF master_df = <<>> THEN "raised"
                  ELSE IF row_found(msymbol[w], master_df[1]) THEN "store"
                  ELSE "raised"]
    /\ UNCHANGED <<instrument_cache, master_df, cache_lock, msymbol, mdf,
                   downloads, fetchVars, poolVars, scanVars, storeVars,
                   reqVars, evalVars>>

\* data_provider.py:90-92 and :103-106, the key found kept under the lock
StoreKey(w) ==
    /\ mpc[w] = "store"
    /\ cache_lock = 0
    /\ instrument_cache' = instrument_cache \cup {msymbol[w]}
    /\ mpc' = [mpc EXCEPT ![w] = "returned"]
    /\ UNCHANGED <<master_df, cache_lock, msymbol, mdf, downloads,
                   fetchVars, poolVars, scanVars, storeVars, reqVars,
                   evalVars>>

NextMaster ==
    \E w \in MasterWorkers :
       \/ FastPath(w)
       \/ AcquireCacheLock(w)
       \/ Recheck(w)
       \/ HttpGet(w)
       \/ SetMaster(w)
       \/ SetCache(w)
       \/ Lookup(w)
       \/ StoreKey(w)

SpecMaster == InitMaster /\ [][NextMaster]_vars

\* ------------------------------------------------------------------------
\* Properties
\* ------------------------------------------------------------------------

\* Positions of the per-symbol events in what the client has received
ScanEventAt == {k \in DOMAIN events : events[k].type \in {"progress", "match"}}

EventsOf(i) == {k \in ScanEventAt : events[k].fut = i}

MatchEventAt == {k \in DOMAIN events : events[k].type = "match"}

TerminalAt == {k \in DOMAIN events : events[k].type \in {"done", "error"}}

\* Position of future i in the order of completion
FinishPos(i) == CHOOSE k \in DOMAIN finishOrder : finishOrder[k] = i

Errored(i) == task[i].cause = "error"

\* C1: when the fetch of a symbol fails on the credential (no stored token,
\* or 401 from the provider), the event the stream carries for that symbol
\* is a fatal error, it is the last event of the stream, and the stream does
\* not go on to report every symbol and a done summary.
C1_CredentialFailureStopsScan ==
    /\ \A k \in DOMAIN events :
          (events[k].type # "done" /\ task[events[k].fut].cause = "credential")
             => (events[k].type = "error" /\ k = Len(events))
    /\ (pc = "done" /\ \E i \in Futures : task[i].cause = "credential")
          => (events[Len(events)].type = "error" /\ Cardinality(ScanEventAt) < total)

\* C2: whatever each fetch+evaluate does, no future ever has two events, the
\* scan is never stuck before its end, and at its end every entry of the
\* list, duplicates included, has exactly one progress or match event: N in
\* all.
C2_OneEventPerSymbol ==
    /\ \A i \in Futures : Cardinality(EventsOf(i)) <= 1
    /\ pc \in {"submit", "collect"} => ENABLED Next
    /\ pc = "done" =>
          /\ \A i \in Futures : Cardinality(EventsOf(i)) = 1
          /\ Cardinality(ScanEventAt) = Len(tickers)

C2_Witness ==
    /\ pc = "done"
    /\ total = 2
    /\ symbols[1] = symbols[2]
    /\ \E i, j \in Futures : i # j /\ Errored(i) /\ task[j].result = "match"
    /\ Cardinality(ScanEventAt) = 2

\* C3: every event sent for a symbol whose fetch or evaluation raised an
\* error other than the credential failure is a progress event (not a match,
\* not an error), and at the end of a scan with such a symbol every symbol
\* has its own progress or match event.
C3_FailureIsolated ==
    /\ \A k \in DOMAIN events :
          (events[k].type # "done" /\ Errored(events[k].fut))
             => events[k].type = "progress"
    /\ (pc = "done" /\ \E i \in Futures : Errored(i))
          => \A j \in Futures : EventsOf(j) # {}

C3_Witness ==
    /\ pc = "done"
    /\ \E i, j \in Futures :
          /\ i # j
          /\ Errored(i)
          /\ FinishPos(i) < FinishPos(j)
          /\ \E k \in EventsOf(i) : events[k].type = "progress"
          /\ \E k \in EventsOf(j) : events[k].type = "match"

\* C4: at every instant at most MAX_WORKERS fetch+evaluate calls are
\* running, and the pool never has more than MAX_WORKERS threads.
C4_ConcurrencyBound ==
    /\ pRunning <= MAX_WORKERS
    /\ pThreads <= MAX_WORKERS

C4_Witness ==
    /\ pRunning = MAX_WORKERS
    /\ pQueued > 0
    /\ pSubmitted > MAX_WORKERS

\* C5: events are in completion order: of two events of one scan, the
\* earlier one is for the future that finished earlier.
C5_CompletionOrder ==
    \A k1, k2 \in ScanEventAt :
        k1 < k2 => FinishPos(events[k1].fut) < FinishPos(events[k2].fut)

\* C6: the k-th event of the stream carries completed = k and total = N,
\* whatever its type, and the last per-symbol event carries completed = N.
C6_CompletedCounts ==
    /\ \A k \in ScanEventAt :
          /\ events[k].completed = k
          /\ events[k].total = Len(tickers)
          /\ events[k].completed <= events[k].total
    /\ pc = "done" => \E k \in ScanEventAt : events[k].completed = Len(tickers)

C6_Witness ==
    /\ pc = "done"
    /\ total = 2
    /\ events[1].type = "match"
    /\ events[2].type = "progress"
    /\ Errored(events[2].fut)
    /\ events[2].completed = 2

\* C7: a terminal event is sent only at the end, after the N per-symbol
\* events, and it is the last event; the ended stream has exactly one, a
\* done event whose matches is the number of match events sent and whose
\* total_scanned is N.
C7_OneTerminalEvent ==
    /\ \A k \in TerminalAt :
          /\ pc = "done"
          /\ k = Len(events)
          /\ k = Len(tickers) + 1
    /\ pc = "done" =>
          /\ Cardinality(TerminalAt) = 1
          /\ events[Len(events)].type = "done"
          /\ events[Len(events)].matches = Cardinality(MatchEventAt)
          /\ events[Len(events)].total_scanned = Len(tickers)

C7_Witness ==
    /\ pc = "done"
    /\ total = 2
    /\ Cardinality(MatchEventAt) = 1
    /\ events[3].type = "done"
    /\ events[3].matches = 1

\* C8: two consecutive submissions are at least SUBMIT_STAGGER_MS apart,
\* and while symbols remain the next submission can be made whatever the
\* workers are doing, all of them busy included.
C8_StaggeredSubmission ==
    /\ pSubmitted >= 2 => pLastGap >= SUBMIT_STAGGER_MS
    /\ (ppc = "submit" /\ pSubmitted < pTotal) => ENABLED PoolSubmit

C8_Witness ==
    /\ pBusyAtSubmit
    /\ pRunning = MAX_WORKERS
    /\ pQueued > 0
    /\ pLastGap >= SUBMIT_STAGGER_MS

\* C9: fetch_ohlcv raises exactly when there is no stored token or the
\* provider answers 401; on every other failure it returns an empty series.
CredentialFailure(w) ==
    \/ ~w.token
    \/ (w.key = "found" /\ w.http = "s401")

C9_RaisesOnlyForCredential ==
    fpc \in {"fetched", "done"} =>
        IF CredentialFailure(fWorld)
        THEN fDf.kind = "raise"
        ELSE /\ fDf.kind = "return"
             /\ fWorld \in FailingWorlds => fDf.bars = 0

\* C10: a series that is empty or shorter than the minimum bar count of the
\* strategy gives a progress event; the indicator computation is not run on
\* it, so nothing it would raise is raised.
C10_ShortSeriesIsProgress ==
    (fpc = "done" /\ fDf.kind = "return" /\ fDf.bars < MinBars(fStrategy)) =>
        /\ event_type(fTask) = "progress"
        /\ ~fTask.computed
        /\ fTask.cause = "short"
        /\ fTask.exc = "none"

C10_Witness ==
    /\ fpc = "done"
    /\ fDf.kind = "return"
    /\ fDf.bars >= BaseMinBars
    /\ fDf.bars < MinBars(fStrategy)
    /\ fEval = "raise"
    /\ event_type(fTask) = "progress"


\* ------------------------------------------------------------------------
\* Properties of the job store
\* ------------------------------------------------------------------------

Terminal == {"done", "error"}

\* The job under id before a step is the job under id after it: same id,
\* same matches list (create_job gives every job a list of its own)
SameJob(id) ==
    /\ id \in DOMAIN jobs
    /\ id \in DOMAIN jobs'
    /\ jobs'[id].matches = jobs[id].matches

\* C11: over any sequence of store calls the status of a job changes only
\* from running to done or from running to error, and at most once; on a job
\* that is done or error finish_job leaves the job as it is. (What fail_job
\* does to such a job is C12 and is left out of this formula, which is
\* therefore implied by the claim.)
C11_StatusSettlesOnce ==
    [][\A id \in JobIds :
          /\ SameJob(id) /\ jobs'[id].status # jobs[id].status /\ ~FailJob(id)
                => jobs[id].status = "running" /\ jobs'[id].status \in Terminal
          /\ FinishJob(id) /\ id \in DOMAIN jobs /\ jobs[id].status \in Terminal
                => jobs' = jobs]_vars

\* C12: fail_job on a job that is done or error is a no-op: the status and
\* the recorded error message stay what they were.
C12_FailJobOnTerminalIsNoOp ==
    [][\A id \in JobIds :
          FailJob(id) /\ id \in DOMAIN jobs /\ jobs[id].status \in Terminal
             => /\ jobs'[id].status = jobs[id].status
                /\ jobs'[id].error = jobs[id].error]_vars


\* C13: get_job returns an independent snapshot: whatever is done to the store
\* after get_job has returned, the returned value, its matches included,
\* shows what it showed when it was returned.
C13_SnapshotIndependent == Shown(snap) = snapSeen

\* The last get_job returned the job that is now under id
SnapOf(id) ==
    /\ snap.status # "{}"
    /\ id \in DOMAIN jobs
    /\ snap.matches = jobs[id].matches

\* C14: for every job and every sequence of store calls, completed <= total
\* holds in every state of the store, and of two successive reads of a job the
\* later one never shows a smaller completed.
C14_CompletedMonotoneAndBounded ==
    [][/\ \A id \in DOMAIN jobs' : jobs'[id].completed <= jobs'[id].total
       /\ \A id \in JobIds :
             GetJob(id) /\ SnapOf(id) => snap'.completed >= snap.completed]_vars

\* C15: create_job returns an id under which the store holds no job, leaves
\* every job of the store as it was, and the new job is running with
\* total = 0, completed = 0, no matches and no error.
C15_CreateJobIsFresh ==
    [][CreateJob =>
          /\ lastOp'.id \notin DOMAIN jobs
          /\ \A id \in DOMAIN jobs : id \in DOMAIN jobs' /\ jobs'[id] = jobs[id]
          /\ jobs'[lastOp'.id].status = "running"
          /\ jobs'[lastOp'.id].total = 0
          /\ jobs'[lastOp'.id].completed = 0
          /\ jobs'[lastOp'.id].error = "None"
          /\ heap'[jobs'[lastOp'.id].matches] = <<>>]_vars


\* A call of one of the four writers with this id
WriterCall(id) ==
    \/ UpdateProgress(id)
    \/ AddMatch(id)
    \/ FinishJob(id)
    \/ FailJob(id)

\* C16: update_progress, add_match, finish_job and fail_job with an id that is
\* not in the store (never created, or evicted) change no job and create no
\* entry; get_job with such an id returns the absent result and creates no
\* entry either, whether or not the id was ever in the store.
C16_UnknownIdIsNoOp ==
    [][\A id \in JobIds \ DOMAIN jobs :
          /\ WriterCall(id) \/ GetJob(id) => jobs' = jobs /\ heap' = heap
          /\ WriterCall(id) => snap' = snap
          /\ GetJob(id) => snap' = EmptyDict]_vars

\* A writer was called with the id of an evicted job
C16_Witness ==
    /\ lastOp.op \in {"update_progress", "add_match", "finish_job", "fail_job"}
    /\ lastOp.id \in evicted
    /\ lastOp.id \notin DOMAIN jobs
    /\ jobs # <<>>

\* Seconds since the job was created
Age(job) == now - job.created_at

\* C17: cleanup_old_jobs removes every job created more than 600 s before
\* the time it runs at, whatever the status of the job, and keeps every other
\* job as it was; get_job on a removed id then returns the absent result.
C17_CleanupRemovesOld ==
    [][Cleanup =>
          /\ DOMAIN jobs' \subseteq DOMAIN jobs
          /\ heap' = heap
          /\ \A id \in DOMAIN jobs :
                IF Age(jobs[id]) > RETENTION
                THEN id \notin DOMAIN jobs' /\ get_job(jobs', id) = EmptyDict
                ELSE id \in DOMAIN jobs' /\ jobs'[id] = jobs[id]]_vars

\* cleanup_old_jobs has just removed a job and kept one that is exactly
\* 600 s old
C17_Witness ==
    /\ lastOp.op = "cleanup"
    /\ evicted # {}
    /\ \E id \in DOMAIN jobs : Age(jobs[id]) = RETENTION

IsPrefix(a, b) == Len(a) <= Len(b) /\ SubSeq(b, 1, Len(a)) = a

\* C20: add_match puts the result at the end of the matches of the job; over
\* any sequence of store calls a matches list only grows, what it held
\* earlier being a prefix of what it holds later, so that its order is the
\* order of the add_match calls.
C20_MatchesAppendOnly ==
    [][/\ \A r \in DOMAIN heap : IsPrefix(heap[r], heap'[r])
       /\ \A id \in DOMAIN jobs :
             AddMatch(id) =>
                /\ jobs' = jobs
                /\ \E res \in Results :
                      heap'[jobs[id].matches] =
                         Append(heap[jobs[id].matches], res)
                /\ \A r \in DOMAIN heap \ {jobs[id].matches} :
                      heap'[r] = heap[r]]_vars

\* Two different results were added to a job, the second one just now
C20_Witness ==
    /\ lastOp.op = "add_match"
    /\ lastOp.id \in DOMAIN jobs
    /\ Len(heap[jobs[lastOp.id].matches]) = 2
    /\ heap[jobs[lastOp.id].matches][1] # heap[jobs[lastOp.id].matches][2]


\* C18: every job created in the store is removed from it in the end once
\* the retention time has passed: in no run does a job older than 600 s stay
\* in the store for ever.
C18_OldJobEventuallyRemoved ==
    \A id \in JobIds :
       (id \in DOMAIN jobs /\ Age(jobs[id]) > RETENTION)
          ~> (id \notin DOMAIN jobs)


\* C19: all calls of the store run under one lock: at no instant are two
\* threads inside the critical section, no thread runs a statement of a body
\* while another is half way through its own, the lock is held by exactly the
\* thread that is inside and is free once that thread has returned, and under
\* fair scheduling every call that was started returns.
C19_OneLock ==
    /\ [](/\ Cardinality({t \in Threads : lpc[t] \in Inside}) <= 1
          /\ ~torn
          /\ \A t \in Threads : lpc[t] \in Inside <=> lock = t)
    /\ \A t \in Threads : (lpc[t] = "waiting") ~> (lpc[t] = "idle")

\* A thread waits for the lock while another is half way through a body that
\* has already changed the store
C19_Witness ==
    /\ lpc["writer"] = "in2"
    /\ lcall["writer"].op = "fail_job"
    /\ lcall["writer"].id \in DOMAIN jobs
    /\ lpc["reader"] = "waiting"
    /\ lcall["reader"].id = lcall["writer"].id


\* C21: when a scan of N symbols is driven into the job store, every job
\* seen with status done has completed = total = N and at most N matches.
C21_DoneJobIsComplete ==
    \A id \in DOMAIN jobs :
       jobs[id].status = "done"
          => /\ jobs[id].completed = Len(tickers)
             /\ jobs[id].total = Len(tickers)
             /\ Len(heap[jobs[id].matches]) <= Len(tickers)

\* A scan of two symbols is done, one of them a match
C21_Witness ==
    /\ Len(tickers) = 2
    /\ \E id \in DOMAIN jobs :
          /\ jobs[id].status = "done"
          /\ Len(heap[jobs[id].matches]) = 1

\* C23: the list the blocking scan returns has every Strong entry before
\* every entry that is not Strong, and entries of equal strength in
\* descending order of the absolute value of change_pct.
C23_SortedStrongFirstThenAbsChange ==
    result # <<>> =>
       LET r == result[1] IN
       \A i, j \in DOMAIN r :
          i < j =>
             /\ strength_rank(r[i]) <= strength_rank(r[j])
             /\ strength_rank(r[i]) = strength_rank(r[j])
                   => abs(change_pct_of(r[i])) >= abs(change_pct_of(r[j]))

C23_Witness ==
    /\ result # <<>>
    /\ Len(data) = 3
    /\ strength_rank(data[1]) = 1
    /\ strength_rank(data[2]) = 0
    /\ strength_rank(data[3]) = 0
    /\ change_pct_of(data[2]) = 1
    /\ change_pct_of(data[3]) = -2
    /\ result[1] = <<data[3], data[2], data[1]>>

\* C22: the results of the blocking scan hold exactly one entry for every
\* symbol whose evaluation gave a result and none for any other symbol, and
\* the match count it reports is the number of match events the streaming
\* path collects for the same run.
C22_BlockingReportsTheMatches ==
    (rpc = "responded" /\ req.route = "scan" /\ resp.status = 200) =>
       /\ \A k \in DOMAIN resp.results : resp.results[k].type = "match"
       /\ \A i \in Futures :
             Cardinality({k \in DOMAIN resp.results : resp.results[k].fut = i})
                = IF task[i].exc = "none" /\ task[i].result = "match"
                  THEN 1 ELSE 0
       /\ resp.matches = Len(matches)

\* The request names a strategy and a universe
NamesBoth == req.strategy # "" /\ req.universe # ""

C25_ReportedRsiBelowThreshold ==
    (result # <<>> /\ result[1] # <<>>) =>
       LET r == result[1][1] IN
       /\ r.rsi * 10 < threshold
       /\ r.strength = "Strong" <=> r.rsi * 10 < StrongBelow

\* The call of _supertrend on the series has returned
SupertrendReturned == result # <<>> /\ result[1].call = "_supertrend"

\* C28: the final bands follow the ratchet rule at every bar after the
\* first, and from the first bar where the ATR is defined both are defined
\* numbers; the upper band rises from one bar to the next only after a close
\* above it and the lower band falls only after a close below it.
C28_FinalBandsDefinedAndRatchet ==
    SupertrendReturned =>
       LET st == result[1].out
           a == atr(data)
       IN  \A i \in DOMAIN data :
              /\ i > 1 =>
                    /\ st.upper[i] =
                          IF \/ lt(upper_basic(data, a, i), st.upper[i - 1])
                             \/ gt(close_at(data, i - 1), st.upper[i - 1])
                          THEN upper_basic(data, a, i) ELSE st.upper[i - 1]
                    /\ st.lower[i] =
                          IF \/ gt(lower_basic(data, a, i), st.lower[i - 1])
                             \/ lt(close_at(data, i - 1), st.lower[i - 1])
                          THEN lower_basic(data, a, i) ELSE st.lower[i - 1]
              /\ ~ a[i].nan => ~ st.upper[i].nan /\ ~ st.lower[i].nan
              /\ (i > 1 /\ ~ a[i - 1].nan) =>
                    /\ gt(st.upper[i], st.upper[i - 1])
                          => gt(close_at(data, i - 1), st.upper[i - 1])
                    /\ lt(st.lower[i], st.lower[i - 1])
                          => lt(close_at(data, i - 1), st.lower[i - 1])

\* C27: the direction is bullish at index P; at every later bar it turns
\* bearish when it was bullish and the close is below the final lower band,
\* bullish when it was bearish and the close is above the final upper band,
\* and is otherwise kept; and a series whose close falls below its lower
\* basic band after the warm-up reaches the bearish state.
C27_DirectionStateMachine ==
    SupertrendReturned =>
       LET st == result[1].out
           a == atr(data)
       IN  /\ st.direction[period + 1] = Num(1)
           /\ \A i \in DOMAIN data :
                 i > period + 1 =>
                    st.direction[i] =
                       IF /\ st.direction[i - 1] = Num(1)
                          /\ lt(close_at(data, i), st.lower[i])
                       THEN Num(-1)
                       ELSE IF /\ st.direction[i - 1] = Num(-1)
                               /\ gt(close_at(data, i), st.upper[i])
                            THEN Num(1)
                            ELSE st.direction[i - 1]
           /\ (\E i \in DOMAIN data :
                  /\ i > period + 1
                  /\ lt(close_at(data, i), lower_basic(data, a, i)))
                 => \E j \in DOMAIN data : st.direction[j] = Num(-1)

\* Every bar closes above the bar before it and its low and high are not
\* below those of the bar before it
Rising(df) ==
    \A i \in DOMAIN df :
       i > 1 => /\ df[i].close > df[i - 1].close
                /\ df[i].low >= df[i - 1].low
                /\ df[i].high >= df[i - 1].high

\* C29: on a monotonically rising series with no dips the direction is
\* bullish at every bar from index P on, and so never flips.
C29_RisingSeriesStaysBullish ==
    (SupertrendReturned /\ Rising(data)) =>
       \A i \in DOMAIN data :
          i >= period + 1 => result[1].out.direction[i] = Num(1)

C29_Witness ==
    /\ SupertrendReturned
    /\ Rising(data)
    /\ Len(data) = EverestMinBars + 1
    /\ data[Len(data)].close - data[Len(data) - 1].close = 3000
    /\ result[1].out.is_green[Len(data)]

\* The call of scan on the series has returned
ScanReturned == result # <<>> /\ result[1].call = "scan"

\* The highest high of the 65 bars before the latest
HighestPriorHigh ==
    LET n == Len(data)
        hs == {data[i].high : i \in n - lookback .. n - 1}
    IN  CHOOSE h \in hs : \A g \in hs : g <= h

\* The direction of Supertrend(7,3) as C27 and C28 state it: the final bands
\* are the basic bands at the first bar where the ATR is defined and follow
\* the ratchet rule from there, the direction is bullish at index P and
\* follows the two-state rule from there
SupertrendDirection ==
    direction_from(data, carry_forward(data, atr(data), period))

\* C26: on a series of at least 100 bars Everest returns a match exactly
\* when the latest close is above the highest high of the 65 bars before the
\* latest bar and the Supertrend(7,3) direction at the latest bar is
\* bullish; on a shorter series it returns no match.
C26_MatchIffBreakoutAndBullish ==
    ScanReturned =>
       LET n == Len(data) IN
       IF n < EverestMinBars THEN result[1].out = <<>>
       ELSE result[1].out # <<>>
               <=> /\ data[n].close > HighestPriorHigh
                   /\ SupertrendDirection[n] = Num(1)

\* C30: a match of Everest is Strong exactly when the direction was bearish
\* at the bar before the latest and is bullish at the latest, or the latest
\* close is more than 1.0 percent above the prior 65-bar high; otherwise it
\* is Moderate.
C30_StrongIffFlippedOrMargin ==
    (ScanReturned /\ result[1].out # <<>>) =>
       LET n == Len(data)
           r == result[1].out[1]
           d == supertrend(data).direction
       IN  /\ r.strength \in {"Strong", "Moderate"}
           /\ r.strength = "Strong"
                 <=> \/ d[n - 1] = Num(-1) /\ d[n] = Num(1)
                     \/ 100 * (data[n].close - HighestPriorHigh)
                           > HighestPriorHigh

\* The provider answered the candle request with a bar for every weekday of
\* the window the strategy asks for
FullWindow ==
    /\ fWorld \in DataWorlds(fStrategy)
    /\ fWorld.bars = WindowCapacity(PeriodDays(fStrategy))

\* C32: the window a strategy asks for can hold the bars it needs before it
\* evaluates: a series with a bar for every weekday of the window is
\* evaluated, and gives a match when the indicators say so (for Everest: a
\* window of 120 days against a minimum of 100 bars).
C32_FullWindowIsEvaluated ==
    (fpc = "done" /\ FullWindow) =>
       /\ fDf.bars >= MinBars(fStrategy)
       /\ fTask.computed
       /\ fEval = "match" => fTask.result = "match"

\* C33: the first event is delivered as soon as the first symbol completes,
\* while later symbols are still being submitted: run_stream does not go on
\* submitting with every event withheld, so at each submission made after a
\* symbol has completed an event has already been delivered.
C33_FirstEventBeforeLaterSubmissions ==
    [][(Submit /\ \E j \in Futures : fstate[j] = "finished")
          => events # <<>>]_vars

\* C31: under concurrent first use the instrument master is downloaded at
\* most once, and a worker that returns from the check made without the
\* lock finds the cache and the master table populated
C31_MasterDownloadedAtMostOnce ==
    [][/\ downloads' <= 1
       /\ \A w \in MasterWorkers :
             (mpc[w] = "fast" /\ mpc'[w] = "lookup") =>
                (instrument_cache # {} /\ master_df # <<>>)]_vars
====
